---- MODULE Spec2Model ----
(***************************************************************************)
(* A model of the chat application's agent pipeline:                       *)
(*   - LangchainService: the tool-calling graph (llmCall <-> tools) and    *)
(*     runAgent, which runs it under recursionLimit 10;                    *)
(*   - the four tools and the services behind them;                        *)
(*   - AiAgentService.processMessage, the turn coordinator;                *)
(*   - MessagesService.sendMessage / getMessages over the tables           *)
(*     conversations, conversation_members and messages;                   *)
(*   - RagService: processAndUpsert, queryDocuments and                    *)
(*     generateRAGResponse over the vector index, and chunkText.           *)
(* Every asynchronous call is one step of the task that awaits it, so that *)
(* tasks interleave exactly at the awaits of the code.                     *)
(***************************************************************************)
EXTENDS Integers, Sequences, FiniteSets, Bags, TLC

VARIABLES
    task,                  \* per request: its inputs, locals and position
    process_env,           \* process.env: the value of AI_AGENT_ID
    AI_AGENT_USER_ID,      \* AiAgentService.AI_AGENT_USER_ID
    conversations,         \* table conversations: id -> [is_group]
    conversation_members,  \* table conversation_members: set of <<conversation_id, user_id>>
    messages,              \* table messages, in insertion (created_at) order
    uploads,               \* number of files written by UploadService.uploadFile
    pinecone,              \* the vector index: its configured name and the vectors of each namespace
    now                    \* Date.now()

vars == <<task, process_env, AI_AGENT_USER_ID, conversations, conversation_members, messages, uploads, pinecone, now>>

(***************************************************************************)
(* Bounds of the model.                                                    *)
(***************************************************************************)
MaxTasks == 2
MaxToolCalls == 2
MaxDirectCalls == 2
MaxClock == 7
MaxRuns == 3
MaxIterations == 12
MaxToolRuns == 2

Tasks == 1..MaxTasks

\* undefined (a missing conversationId / recipientId / id)
NoId == 0

\* the number that is not a number: it differs from every id, itself included
\* in the program; no id of the model has its value
NaN == -1

\* if (id): an id that is given; undefined, 0 and NaN are not
Given(id) == id # NoId /\ id # NaN

Last(s) == s[Len(s)]

(***************************************************************************)
(* An error message is represented by the set of marker substrings it      *)
(* contains; String.prototype.includes is case sensitive.                  *)
(***************************************************************************)
Includes(message, needle) == needle \in message

\* GraphRecursionError: "Recursion limit of 10 reached without hitting a stop
\* condition. ... Troubleshooting URL: .../errors/GRAPH_RECURSION_LIMIT/"
GraphRecursionErrorMessage == {"Recursion limit", "GRAPH_RECURSION_LIMIT"}

\* a failure of the chat model (network, quota, ...)
ModelErrorMessage == {"Connection error"}

(***************************************************************************)
(* The tools (LangchainService.initializeAgent) and the services behind    *)
(* them.  env is how the external system behind the service behaves for    *)
(* the call.                                                               *)
(***************************************************************************)
ToolNames == {"sendEmail", "addCalendarEvent", "getEventsInRange", "queryDocuments"}

ServiceEnvs(name) ==
    CASE name = "sendEmail"        -> {"accepts", "unconfigured", "rejects"}
      [] name = "addCalendarEvent" -> {"created", "provider_error"}
      [] name = "getEventsInRange" -> {"events", "empty", "auth_error", "provider_error"}
      [] name = "queryDocuments"   -> {"answer", "no_match", "rag_error"}

EmailNotConfiguredText == "Email service is not configured. Please set up SMTP credentials to enable email functionality."
EmailSentText == "Email sent."
EmailIssueText == "It seems there is an issue with sending the email. Please try again later or check the email address for any errors."
EventCreatedText == "Event created: htmlLink"
EventFailedText == "Failed to create the calendar event. Please check the details or try again later."
NoEventsText == "No events found in this time range."
FoundEventsText == "Found 1 event(s): summary (start -> end)"
FetchFailedText == "Failed to fetch calendar events. Please check the time range format."
RagAnswerText == "answer grounded in the documents"
RagNotFoundText == "I couldn't find any relevant information in your documents to answer this question."

\* EmailService.sendEmail: threw, the value returned, and the sendMail calls made
EmailService_sendEmail(env) ==
    IF env = "unconfigured"
    THEN [threw |-> FALSE, messageId |-> "disabled", sendMail |-> 0]
    ELSE IF env = "accepts"
    THEN [threw |-> FALSE, messageId |-> "smtp-id", sendMail |-> 1]
    ELSE [threw |-> TRUE, messageId |-> "", sendMail |-> 1]

\* what a call of a tool function ends with: a returned text, or an exception
Returned(text) == [threw |-> FALSE, text |-> text]
Thrown == [threw |-> TRUE, text |-> ""]

\* emailTool without the check for 'disabled'
emailTool_noDisabledCheck(env) ==
    LET result == EmailService_sendEmail(env)
    IN  IF result.threw THEN Returned(EmailIssueText) ELSE Returned(EmailSentText)

\* emailTool without its try/catch
emailTool_noCatch(env) ==
    LET result == EmailService_sendEmail(env)
    IN  IF result.threw THEN Thrown
        ELSE IF result.messageId = "disabled" THEN Returned(EmailNotConfiguredText)
        ELSE Returned(EmailSentText)

emailTool(env) ==
    LET result == EmailService_sendEmail(env)
    IN  IF result.threw THEN Returned(EmailIssueText)
        ELSE IF result.messageId = "disabled" THEN Returned(EmailNotConfiguredText)
        ELSE Returned(EmailSentText)

\* CalendarService.addEvent
CalendarService_addEvent(env) ==
    IF env = "created"
    THEN [threw |-> FALSE, htmlLink |-> "htmlLink"]
    ELSE [threw |-> TRUE, htmlLink |-> ""]

\* the timestamps the model can put in a tool call: local time and zone designator
Timestamps ==
    {[local |-> "2025-07-03T14:00:00", zone |-> "+05:00"],
     [local |-> "2025-07-03T09:00:00", zone |-> "Z"],
     [local |-> "2025-07-03T14:00:00", zone |-> ""]}

\* startTime: z.string(), endTime: z.string()
calendarEventSchema(startTime, endTime) == TRUE

\* addEvent: the resource of calendar.events.insert
AddEventResource(startTime, endTime) ==
    [start |-> [dateTime |-> startTime, timeZone |-> "Asia/Karachi"],
     end |-> [dateTime |-> endTime, timeZone |-> "Asia/Karachi"]]

calendarEventTool(env) ==
    LET event == CalendarService_addEvent(env)
    IN  IF event.threw THEN Returned(EventFailedText) ELSE Returned(EventCreatedText)

\* how calendar.events.list can end: the outcomes above, and authentication
\* failures with other messages
CalendarListEnvs ==
    {"events", "empty", "auth_error", "provider_error",
     "auth_client_email", "auth_invalid_credentials", "auth_invalid_grant"}

\* calendar.events.list rejected the credentials of the client
AuthFailure(env) ==
    env \in {"auth_error", "auth_client_email", "auth_invalid_credentials", "auth_invalid_grant"}

\* the error calendar.events.list rejects with: the texts its message contains
CalendarListError(env) ==
    CASE env = "auth_error"               -> {"credentials"}
      [] env = "auth_client_email"        -> {"client_email"}
      [] env = "auth_invalid_credentials" -> {"Invalid Credentials", "Credentials"}
      [] env = "auth_invalid_grant"       -> {"invalid_grant"}
      [] OTHER                            -> {"Bad Request"}

\* CalendarService.getEventsInRange
CalendarService_getEventsInRange(env) ==
    IF env = "events" THEN [threw |-> FALSE, events |-> <<"event">>]
    ELSE IF env = "empty" THEN [threw |-> FALSE, events |-> <<>>]
    ELSE IF \/ Includes(CalendarListError(env), "client_email")
            \/ Includes(CalendarListError(env), "credentials")
    THEN [threw |-> FALSE, events |-> <<>>]
    ELSE [threw |-> TRUE, events |-> <<>>]

getEventsInRangeTool(env) ==
    LET r == CalendarService_getEventsInRange(env)
    IN  IF r.threw THEN Returned(FetchFailedText)
        ELSE IF Len(r.events) = 0 THEN Returned(NoEventsText)
        ELSE Returned(FoundEventsText)

\* RagService.generateRAGResponse, as the tool sees it
RagService_generateRAGResponse(env) ==
    IF env = "answer" THEN [threw |-> FALSE, success |-> TRUE, answer |-> RagAnswerText]
    ELSE IF env = "no_match" THEN [threw |-> FALSE, success |-> TRUE, answer |-> RagNotFoundText]
    ELSE [threw |-> TRUE, success |-> FALSE, answer |-> ""]

ragQueryTool(env) ==
    LET result == RagService_generateRAGResponse(env)
    IN  IF result.threw THEN Returned(RagNotFoundText)
        ELSE IF result.success /\ result.answer # "" THEN Returned(result.answer)
        ELSE Returned(RagNotFoundText)

\* whether the service call behind the tool threw
ServiceThrew(name, env) ==
    CASE name = "sendEmail"        -> EmailService_sendEmail(env).threw
      [] name = "addCalendarEvent" -> CalendarService_addEvent(env).threw
      [] name = "getEventsInRange" -> CalendarService_getEventsInRange(env).threw
      [] name = "queryDocuments"   -> RagService_generateRAGResponse(env).threw

\* what a tool returns where its service threw
ToolFailureText(name) ==
    CASE name = "sendEmail"        -> EmailIssueText
      [] name = "addCalendarEvent" -> EventFailedText
      [] name = "getEventsInRange" -> FetchFailedText
      [] name = "queryDocuments"   -> RagNotFoundText

\* the tool named by the call, invoked
InvokeTool(name, env) ==
    CASE name = "sendEmail"        -> emailTool(env)
      [] name = "addCalendarEvent" -> calendarEventTool(env)
      [] name = "getEventsInRange" -> getEventsInRangeTool(env)
      [] name = "queryDocuments"   -> ragQueryTool(env)

\* ToolNode turns an exception of a tool into the content of its ToolMessage
ToolNodeErrorText == "Error: tool failed. Please fix your mistakes."

ToolNodeOutput(r) == IF r.threw THEN ToolNodeErrorText ELSE r.text

\* ragQueryTool: configurable?.userId || 1; runAgent passes no configurable
RagUserId(configurableUserId) ==
    IF configurableUserId # NoId THEN configurableUserId ELSE 1

\* generateRAGResponse: index.namespace(namespace || `user-${userId}`)
RagNamespace(namespace, userId) ==
    IF namespace # NoId THEN namespace ELSE <<"user", userId>>

(***************************************************************************)
(* The agent graph (LangchainService.initializeAgent / runAgent).          *)
(***************************************************************************)
\* { recursionLimit: 10 }
RecursionLimit == 10

\* messages of the graph state (MessagesAnnotation)
HumanMessage(content) ==
    [type |-> "human", content |-> content, tool_calls |-> <<>>, tool_call_id |-> NoId, name |-> ""]
AIMessage(content, tool_calls) ==
    [type |-> "ai", content |-> content, tool_calls |-> tool_calls, tool_call_id |-> NoId, name |-> ""]
ToolMessage(call, content) ==
    [type |-> "tool", content |-> content, tool_calls |-> <<>>, tool_call_id |-> call.id, name |-> call.name]

\* a { role, content } entry of the history, as the graph state coerces it
CoerceMessage(m) ==
    IF m.role = "assistant" THEN AIMessage(m.content, <<>>) ELSE HumanMessage(m.content)

\* what runAgent returns where nothing was returned yet
NoResponse == [role |-> "none", content |-> ""]

RecursionFallback ==
    [role |-> "assistant",
     content |-> "I apologize, but I encountered an issue processing your request. Please try rephrasing your message or ask for something simpler."]
ErrorFallback ==
    [role |-> "assistant",
     content |-> "I apologize, but I encountered an issue processing your request. Please try again later."]

(***************************************************************************)
(* The chat model is a stub: on each turn it fails, answers in free text,  *)
(* or requests the tool calls of its script (stub), each with the          *)
(* behaviour (env) of the external system behind the call.                 *)
(***************************************************************************)
StubCalls == UNION {{[name |-> n, env |-> e] : e \in ServiceEnvs(n)} : n \in ToolNames}

FinalContents == {"final answer", ""}

CallId(modelCall, i) == modelCall * (MaxToolCalls + 1) + i

RequestedCalls(s) ==
    [i \in 1..Len(s.stub) |->
        [name |-> s.stub[i].name, env |-> s.stub[i].env, id |-> CallId(s.modelCalls + 1, i)]]

\* this.llm.bindTools(tools).invoke([systemPrompt, ...state.messages])
LlmOutcomes(s) ==
    {[threw |-> TRUE, msg |-> AIMessage("", <<>>)]}
    \cup {[threw |-> FALSE, msg |-> AIMessage(c, <<>>)] : c \in FinalContents}
    \cup (IF Len(s.stub) > 0
          THEN {[threw |-> FALSE, msg |-> AIMessage("", RequestedCalls(s))]}
          ELSE {})

\* shouldContinue reading the first message of the state instead of the last
shouldContinue_first(state_messages) ==
    IF Len(state_messages) > 0 /\ Len(state_messages[1].tool_calls) > 0
    THEN "tools"
    ELSE "__end__"

\* const shouldContinue = (state) => last?.tool_calls?.length ? 'tools' : '__end__'
shouldContinue(state_messages) ==
    IF Len(state_messages) > 0 /\ Len(Last(state_messages).tool_calls) > 0
    THEN "tools"
    ELSE "__end__"

(***************************************************************************)
(* The loop of the graph runtime after a superstep: step supersteps have   *)
(* run and next is the node the edges lead to.  Up to recursionLimit       *)
(* supersteps a run ends normally; a run that needs more is aborted with   *)
(* GraphRecursionError.  Releases of the runtime differ in whether the     *)
(* superstep after the limit is still started before the error is raised,  *)
(* and in whether a run that ends in that superstep still raises it.       *)
(***************************************************************************)
\* a limit that counted the model turns only
Dispositions_modelTurnsOnly(step, next) ==
    IF step < 2 * RecursionLimit
    THEN {IF next = "__end__" THEN "done" ELSE "run"}
    ELSE {IF next = "__end__" THEN "done" ELSE "out_of_steps"}

Dispositions(step, next) ==
    IF step < RecursionLimit
    THEN {IF next = "__end__" THEN "done" ELSE "run"}
    ELSE IF step = RecursionLimit
    THEN (IF next = "__end__" THEN {"done"} ELSE {"out_of_steps", "run"})
    ELSE (IF next = "__end__" THEN {"done", "out_of_steps"} ELSE {"out_of_steps"})

\* runAgent: return result.messages.at(-1)
AgentReturn(s) ==
    [s EXCEPT !.pc = "agent_returned",
              !.aiResponse = [role |-> "assistant", content |-> Last(s.messages).content],
              !.finalMessage = Last(s.messages)]

\* a catch that looked for 'recursion limit' only
AgentCatch_lowercaseOnly(s, error, message) ==
    IF Includes(message, "recursion limit")
    THEN [s EXCEPT !.pc = "agent_returned", !.graphError = error,
                   !.aiResponse = RecursionFallback]
    ELSE [s EXCEPT !.pc = "agent_returned", !.graphError = error,
                   !.aiResponse = ErrorFallback]

\* a catch that rethrew
AgentCatch_rethrows(s, error, message) ==
    [s EXCEPT !.pc = "agent_threw", !.graphError = error]

\* runAgent: catch (error)
AgentCatch(s, error, message) ==
    IF \/ Includes(message, "recursion limit")
       \/ Includes(message, "GRAPH_RECURSION_LIMIT")
    THEN [s EXCEPT !.pc = "agent_returned", !.graphError = error,
                   !.aiResponse = RecursionFallback]
    ELSE [s EXCEPT !.pc = "agent_returned", !.graphError = error,
                   !.aiResponse = ErrorFallback]

\* the runtime starts the node the edges lead to
EnterNode(s, next) ==
    IF next = "tools"
    THEN [s EXCEPT !.pc = "tools",
                   !.inflight = 1..Len(Last(s.messages).tool_calls),
                   !.results = <<>>]
    ELSE [s EXCEPT !.pc = "llmCall"]

GraphAdvance(s, next, d) ==
    CASE d = "done"         -> AgentReturn(s)
      [] d = "out_of_steps" -> AgentCatch(s, "GraphRecursionError", GraphRecursionErrorMessage)
      [] d = "run"          -> EnterNode(s, next)

\* Promise.race in place of Promise.all
ToolsSettled_any(s) == s.inflight # 1..Len(Last(s.messages).tool_calls)

\* ToolNode awaits Promise.all over the tool calls of the last message
ToolsSettled(s) == s.inflight = {}

\* the ToolMessages of the calls that have a result, in the order of the requests
ToolOutputs(s, calls) ==
    LET F[i \in 0..Len(calls)] ==
            IF i = 0 THEN <<>>
            ELSE IF i \in DOMAIN s.results
                 THEN Append(F[i - 1], ToolMessage(calls[i], s.results[i]))
                 ELSE F[i - 1]
    IN  F[Len(calls)]

\* agentGraph.invoke({ messages: userMessageHistory, userId }, { recursionLimit: 10 })
RunAgent(t) ==
    /\ task[t].pc = "runAgent"
    /\ LET h == task[t].messageHistory
       IN  task' = [task EXCEPT ![t] =
                [@ EXCEPT !.pc = "llmCall",
                          !.messages = [i \in 1..Len(h) |-> CoerceMessage(h[i])],
                          !.step = 0, !.modelCalls = 0]]
    /\ UNCHANGED <<process_env, AI_AGENT_USER_ID, conversations, conversation_members, messages, uploads, pinecone, now>>

\* node llmCall, then the conditional edge
LlmCall(t) ==
    /\ task[t].pc = "llmCall"
    /\ \E out \in LlmOutcomes(task[t]) :
        LET called == [task[t] EXCEPT !.modelCalls = @ + 1]
            s1 == [called EXCEPT !.messages = Append(@, out.msg), !.step = @ + 1]
            next == shouldContinue(s1.messages)
        IN  IF out.threw
            THEN task' = [task EXCEPT ![t] = AgentCatch(called, "ModelError", ModelErrorMessage)]
            ELSE \E d \in Dispositions(s1.step, next) :
                    task' = [task EXCEPT ![t] = GraphAdvance(s1, next, d)]
    /\ UNCHANGED <<process_env, AI_AGENT_USER_ID, conversations, conversation_members, messages, uploads, pinecone, now>>

\* a tools node that runs a call again when its service failed
ToolCall_retriesFailure(t, i) ==
    /\ task[t].pc = "tools"
    /\ i \in task[t].inflight
    /\ LET call == Last(task[t].messages).tool_calls[i]
       IN  task' = [task EXCEPT ![t] =
                [@ EXCEPT !.inflight = IF ServiceThrew(call.name, call.env)
                                           /\ BagCardinality(task[t].toolLog) < 2 * MaxToolCalls
                                       THEN @ ELSE @ \ {i},
                          !.results = @ @@ (i :> ToolNodeOutput(InvokeTool(call.name, call.env))),
                          !.toolLog = @ (+) SetToBag({[id |-> call.id, name |-> call.name, env |-> call.env,
                                                       threw |-> InvokeTool(call.name, call.env).threw,
                                                       userId |-> RagUserId(task[t].configurableUserId)]})]]
    /\ UNCHANGED <<process_env, AI_AGENT_USER_ID, conversations, conversation_members, messages, uploads, pinecone, now>>

\* node tools: one of the tool calls in flight runs to its result
ToolCall(t, i) ==
    /\ task[t].pc = "tools"
    /\ i \in task[t].inflight
    /\ LET call == Last(task[t].messages).tool_calls[i]
       IN  task' = [task EXCEPT ![t] =
                [@ EXCEPT !.inflight = @ \ {i},
                          !.results = @ @@ (i :> ToolNodeOutput(InvokeTool(call.name, call.env))),
                          !.toolLog = @ (+) SetToBag({[id |-> call.id, name |-> call.name, env |-> call.env,
                                                       threw |-> InvokeTool(call.name, call.env).threw,
                                                       userId |-> RagUserId(task[t].configurableUserId)]})]]
    /\ UNCHANGED <<process_env, AI_AGENT_USER_ID, conversations, conversation_members, messages, uploads, pinecone, now>>

\* node tools returns its ToolMessages, then the edge tools -> llmCall
ToolsReturn(t) ==
    /\ task[t].pc = "tools"
    /\ ToolsSettled(task[t])
    /\ LET s == task[t]
           s1 == [s EXCEPT !.messages = @ \o ToolOutputs(s, Last(s.messages).tool_calls),
                           !.step = @ + 1, !.toolTurns = @ + 1]
       IN  \E d \in Dispositions(s1.step, "llmCall") :
                task' = [task EXCEPT ![t] = GraphAdvance(s1, "llmCall", d)]
    /\ UNCHANGED <<process_env, AI_AGENT_USER_ID, conversations, conversation_members, messages, uploads, pinecone, now>>

(***************************************************************************)
(* Requests.                                                               *)
(***************************************************************************)
\* the message texts of the model
UserText == "hello agent"

\* the frame of a call of sendMessage that has not been made
NoCall ==
    [caller |-> "none", senderId |-> NoId, conversationId |-> NoId, recipientId |-> NoId,
     content |-> "", file |-> FALSE, memberIds |-> {}, resolvedConversationId |-> NoId,
     fileUrl |-> NoId]

\* what sendMessage returns: { conversationId, data: savedMessage }
NoResult == [conversationId |-> NoId, data |-> [id |-> NoId, file_url |-> NoId]]

\* what processMessage returns
NoReturn ==
    [success |-> FALSE, aiResponse |-> "", messageId |-> NoId, conversationId |-> NoId,
     audioResponseUrl |-> NoId]

\* what the controller answers
NoChatResponse == [success |-> FALSE, error |-> "none"]

\* a query that is undefined, and the query with a text
UndefinedQuery == [defined |-> FALSE, text |-> <<>>]

\* nothing was returned
NoRagResult ==
    [success |-> FALSE, answer |-> "", sources |-> {}, total |-> 0, chunks |-> 0,
     namespace |-> <<>>]

\* the file of an upload request without a file
NoDocument == [present |-> FALSE, originalname |-> <<>>, buffer |-> [valid |-> FALSE, value |-> <<>>]]

\* a call of RagService that has not been made: its arguments, locals and position
NoRag ==
    [pc |-> "off", op |-> "none", userId |-> NoId, file |-> NoDocument, query |-> UndefinedQuery,
     namespace |-> NoId, after |-> {},
     text |-> <<>>, clean |-> <<>>, i |-> 0, out |-> <<>>, spans |-> <<>>, iterations |-> 0,
     chunks |-> <<>>, vectors |-> <<>>,
     embedCalls |-> 0, indexQueries |-> 0, chatCalls |-> 0, upserts |-> 0,
     written |-> {}, candidates |-> {}, matches |-> {},
     result |-> NoRagResult, error |-> "none"]

\* a request that has not been made
BlankTask ==
    [pc |-> "off",
     userId |-> NoId,
     message |-> "",
     conversationId |-> NoId,
     recipientId |-> NoId,
     file |-> FALSE,
     isVoiceMessage |-> FALSE,
     sm |-> NoCall,
     userMessageResult |-> NoResult,
     resolvedConversationId |-> NoId,
     aiResponseFile |-> FALSE,
     audioResponseUrl |-> NoId,
     aiMessage |-> NoResult,
     result |-> NoReturn,
     error |-> "none",
     failedAt |-> "none",
     historyLoaded |-> FALSE,
     speech |-> "none",
     historyError |-> FALSE,
     mimetype |-> "none",
     dtoMessage |-> "",
     transcription |-> "undefined",
     transcribed |-> FALSE,
     chatResponse |-> NoChatResponse,
     calls |-> <<>>,
     runs |-> <<>>,
     rag |-> NoRag,
     dbWrites |-> 0,
     stub |-> <<>>,
     messageHistory |-> <<>>,
     configurableUserId |-> NoId,
     messages |-> <<>>,
     step |-> 0,
     modelCalls |-> 0,
     toolTurns |-> 0,
     inflight |-> {},
     results |-> <<>>,
     toolLog |-> EmptyBag,
     graphError |-> "none",
     finalMessage |-> AIMessage("", <<>>),
     aiResponse |-> NoResponse]

\* the scripts of the chat-model stub: up to n tool calls per model turn
Stubs(n) == UNION {[1..k -> StubCalls] : k \in 0..n}

\* histories handed to runAgent
AgentHistories ==
    {<<[role |-> "user", content |-> UserText]>>,
     <<[role |-> "user", content |-> "hi"], [role |-> "assistant", content |-> "hello"],
       [role |-> "user", content |-> UserText]>>}

(***************************************************************************)
(* MessagesService over the tables.                                        *)
(***************************************************************************)
\* the rows of table users
Users == {1, 2, 3}

\* the namespaces of the index: `user-${userId}`
Namespaces == {<<"user", u>> : u \in Users}

\* the index with no vector in it
EmptyIndex == [indexName |-> "docs", namespaces |-> [ns \in Namespaces |-> {}]]

\* texts that are only whitespace
WhitespaceOnly == {" ", "   "}

\* String.prototype.trim
Trim(content) == IF content \in WhitespaceOnly THEN "" ELSE content

\* the error processMessage throws, whatever went wrong
GenericFailure == "Failed to process AI request. Please try again later."

\* processMessage: catch (error) { throw new Error('Failed to process AI request...') }
PMCatch(s, at) ==
    [s EXCEPT !.pc = "pm_failed", !.error = GenericFailure, !.failedAt = at]

\* an exception leaves sendMessage: into the catch of processMessage, or to the
\* caller of a direct call
SMThrow(s, error) ==
    IF s.sm.caller = "direct"
    THEN [s EXCEPT !.pc = "sm_failed", !.error = error]
    ELSE PMCatch(s, IF s.sm.caller = "user" THEN "saveUser" ELSE "saveAgent")

\* sendMessage up to its first await
SMEnter(s, caller, senderId, conversationId, recipientId, content, file) ==
    LET s1 == [s EXCEPT !.sm = [caller |-> caller, senderId |-> senderId,
                                conversationId |-> conversationId, recipientId |-> recipientId,
                                content |-> content, file |-> file, memberIds |-> {},
                                resolvedConversationId |-> conversationId, fileUrl |-> NoId]]
    IN  IF (content = "" \/ Trim(content) = "") /\ ~file
        THEN SMThrow(s1, "Either message content or a file is required")
        ELSE IF conversationId # NoId THEN [s1 EXCEPT !.pc = "sm_members"]
        ELSE IF Given(recipientId) THEN [s1 EXCEPT !.pc = "sm_userCheck"]
        ELSE SMThrow(s1, "Either conversationId or recipientId must be provided")

\* sendMessage once the conversation is resolved: the upload, or the insert
SMResolved(s) ==
    IF s.sm.resolvedConversationId = NoId
    THEN SMThrow(s, "Either conversationId or recipientId must be provided")
    ELSE IF s.sm.file THEN [s EXCEPT !.pc = "sm_upload"]
    ELSE [s EXCEPT !.pc = "sm_insertMessage"]

\* SELECT c.id FROM conversations c JOIN ... WHERE c.is_group = false
\*   AND cm1.user_id = $1 AND cm2.user_id = $2
DmRows(senderId, recipientId) ==
    {c \in DOMAIN conversations :
        /\ ~conversations[c].is_group
        /\ <<c, senderId>> \in conversation_members
        /\ <<c, recipientId>> \in conversation_members}

\* INSERT INTO messages ... RETURNING *
InsertRow_front(table, row) == <<row>> \o table

InsertRow(table, row) == Append(table, row)

(***************************************************************************)
(* AiAgentService.processMessage.                                          *)
(***************************************************************************)
\* the two validations of processMessage
ValidTurn_noRecipientCheck(s) ==
    ~(s.conversationId = NoId /\ s.recipientId = NoId)

ValidTurn_noIdCheck(s) ==
    ~(s.recipientId # NoId /\ s.recipientId # AI_AGENT_USER_ID)

ValidTurn(s) ==
    /\ ~(s.conversationId = NoId /\ s.recipientId = NoId)
    /\ ~(s.recipientId # NoId /\ s.recipientId # AI_AGENT_USER_ID)

\* a history with the user's turn in front
PMHistory_userFirst(s, conversationHistory) ==
    [s EXCEPT !.pc = "runAgent",
              !.messageHistory = <<[role |-> "user", content |-> s.message]>> \o conversationHistory]

\* messageHistory = [...conversationHistory, userMessage]; runAgent is called next
PMHistory(s, conversationHistory) ==
    [s EXCEPT !.pc = "runAgent",
              !.messageHistory = Append(conversationHistory, [role |-> "user", content |-> s.message])]

\* getConversationHistory: catch (error) { ...; return [] }
GHCatch(s) == PMHistory([s EXCEPT !.historyError = TRUE], <<>>)

\* getConversationHistory: result.messages.map(...)
HistoryOf(rows) ==
    [i \in 1..Len(rows) |->
        [role |-> IF rows[i].sender_id = AI_AGENT_USER_ID THEN "assistant" ELSE "user",
         content |-> rows[i].content]]

\* the query with ORDER BY m.created_at DESC
MessagesOf_newestFirst(conversationId) ==
    LET rows == SelectSeq(messages, LAMBDA r : r.conversation_id = conversationId)
    IN  [i \in 1..Len(rows) |-> rows[Len(rows) + 1 - i]]

\* SELECT ... FROM messages m WHERE m.conversation_id = $1 ORDER BY m.created_at ASC
MessagesOf(conversationId) ==
    SelectSeq(messages, LAMBDA r : r.conversation_id = conversationId)

\* a reply written with the text of the first message the run added
PMSaveAgent_firstAdded(s) ==
    SMEnter(s, "agent", AI_AGENT_USER_ID, s.resolvedConversationId, s.userId,
            IF Len(s.messages) > Len(s.messageHistory)
            THEN s.messages[Len(s.messageHistory) + 1].content
            ELSE s.aiResponse.content,
            s.aiResponseFile)

\* sendMessage(AI_AGENT_USER_ID, { content: aiResponse.content, conversationId:
\*   resolvedConversationId, recipientId: userId }, aiResponseFile)
PMSaveAgent(s) ==
    SMEnter(s, "agent", AI_AGENT_USER_ID, s.resolvedConversationId, s.userId,
            s.aiResponse.content, s.aiResponseFile)

\* a catch around the voice response that rethrew
PMSpeechCatch_rethrows(s) == PMCatch(s, "voiceResponse")

\* catch (error) { logger.warn('Failed to generate voice response:', error) }:
\* continue without voice response
PMSpeechCatch(s) == PMSaveAgent(s)

\* the value processMessage returns, with the original conversationId
PMResult_originalId(s, aiMessage) ==
    [success |-> TRUE, aiResponse |-> s.aiResponse.content, messageId |-> aiMessage.data.id,
     conversationId |-> s.conversationId, audioResponseUrl |-> s.audioResponseUrl]

\* the value processMessage returns
PMResult(s, aiMessage) ==
    [success |-> TRUE, aiResponse |-> s.aiResponse.content, messageId |-> aiMessage.data.id,
     conversationId |-> s.resolvedConversationId, audioResponseUrl |-> s.audioResponseUrl]

\* the answer of the controller to a turn that processMessage completed
ChatResponse(result, transcription) ==
    [success |-> result.success, aiResponse |-> result.aiResponse, messageId |-> result.messageId,
     conversationId |-> result.conversationId, transcription |-> transcription,
     audioResponseUrl |-> result.audioResponseUrl]

\* sendMessage returns to its caller, which runs on to its next await
SMReturn(s, res) ==
    IF s.sm.caller = "user"
    THEN LET s1 == [s EXCEPT !.userMessageResult = res,
                             !.resolvedConversationId = res.conversationId]
         IN  IF s.isVoiceMessage THEN [s1 EXCEPT !.pc = "pm_textToSpeech"] ELSE PMSaveAgent(s1)
    ELSE IF s.sm.caller = "agent"
    THEN [s EXCEPT !.pc = "pm_done", !.aiMessage = res, !.result = PMResult(s, res),
                   !.chatResponse = ChatResponse(PMResult(s, res), s.transcription)]
    ELSE [s EXCEPT !.pc = "sm_done", !.userMessageResult = res]

\* processMessage up to its first await
ProcessMessage(t) ==
    /\ task[t].pc = "pm_start"
    /\ LET s == task[t]
       IN  task' = [task EXCEPT ![t] =
                IF ~ValidTurn(s) THEN PMCatch(s, "validation")
                ELSE IF s.conversationId # NoId THEN [s EXCEPT !.pc = "gm_conversation"]
                ELSE PMHistory(s, <<>>)]
    /\ UNCHANGED <<process_env, AI_AGENT_USER_ID, conversations, conversation_members, messages, uploads, pinecone, now>>

\* getMessages: SELECT * FROM conversations WHERE id = $1
GMConversation(t) ==
    /\ task[t].pc = "gm_conversation"
    /\ \E ok \in BOOLEAN :
        LET s == task[t]
        IN  task' = [task EXCEPT ![t] =
                IF ok /\ s.conversationId \in DOMAIN conversations
                THEN [s EXCEPT !.pc = "gm_member"]
                ELSE GHCatch(s)]
    /\ UNCHANGED <<process_env, AI_AGENT_USER_ID, conversations, conversation_members, messages, uploads, pinecone, now>>

\* getMessages: SELECT * FROM conversation_members WHERE conversation_id = $1 AND user_id = $2
GMMember(t) ==
    /\ task[t].pc = "gm_member"
    /\ \E ok \in BOOLEAN :
        LET s == task[t]
        IN  task' = [task EXCEPT ![t] =
                IF ok /\ <<s.conversationId, AI_AGENT_USER_ID>> \in conversation_members
                THEN [s EXCEPT !.pc = "gm_fetch"]
                ELSE GHCatch(s)]
    /\ UNCHANGED <<process_env, AI_AGENT_USER_ID, conversations, conversation_members, messages, uploads, pinecone, now>>

\* getMessages: the messages of the conversation, oldest first; then the history
GMFetch(t) ==
    /\ task[t].pc = "gm_fetch"
    /\ \E ok \in BOOLEAN :
        LET s == task[t]
        IN  task' = [task EXCEPT ![t] =
                IF ok
                THEN PMHistory([s EXCEPT !.historyLoaded = TRUE],
                               HistoryOf(MessagesOf(s.conversationId)))
                ELSE GHCatch(s)]
    /\ UNCHANGED <<process_env, AI_AGENT_USER_ID, conversations, conversation_members, messages, uploads, pinecone, now>>

\* runAgent has returned: sendMessage(userId, { content: message, conversationId,
\*   recipientId: AI_AGENT_USER_ID }, file)
SaveUserMessage(t) ==
    /\ task[t].pc \in {"agent_returned", "agent_threw"}
    /\ LET s == task[t]
       IN  task' = [task EXCEPT ![t] =
                IF s.pc = "agent_threw" THEN PMCatch(s, "runAgent")
                ELSE SMEnter(s, "user", s.userId, s.conversationId, AI_AGENT_USER_ID,
                             s.message, s.file)]
    /\ UNCHANGED <<process_env, AI_AGENT_USER_ID, conversations, conversation_members, messages, uploads, pinecone, now>>

\* transcriptionService.textToSpeech(aiResponse.content, 'alloy'); a failure is swallowed
TextToSpeech(t) ==
    /\ task[t].pc = "pm_textToSpeech"
    /\ \E ok \in BOOLEAN :
        LET s == task[t]
        IN  task' = [task EXCEPT ![t] =
                IF ok THEN [s EXCEPT !.pc = "pm_upload", !.aiResponseFile = TRUE, !.speech = "ok"]
                ELSE PMSpeechCatch([s EXCEPT !.speech = "failed"])]
    /\ UNCHANGED <<process_env, AI_AGENT_USER_ID, conversations, conversation_members, messages, uploads, pinecone, now>>

\* uploadService.uploadFile(aiResponseFile); a failure is swallowed
UploadVoice(t) ==
    /\ task[t].pc = "pm_upload"
    /\ \E ok \in BOOLEAN :
        LET s == task[t]
        IN  IF ok
            THEN /\ uploads' = uploads + 1
                 /\ task' = [task EXCEPT ![t] = PMSaveAgent([s EXCEPT !.audioResponseUrl = uploads + 1])]
            ELSE /\ uploads' = uploads
                 /\ task' = [task EXCEPT ![t] = PMSpeechCatch([s EXCEPT !.speech = "upload_failed"])]
    /\ UNCHANGED <<process_env, AI_AGENT_USER_ID, conversations, conversation_members, messages, pinecone, now>>

(***************************************************************************)
(* MessagesService.sendMessage, one step per query.                        *)
(***************************************************************************)
\* sendMessage without the check that the sender is a member
SMMembers_noMemberCheck(t) ==
    /\ task[t].pc = "sm_members"
    /\ \E ok \in BOOLEAN :
        LET s == task[t]
            memberIds == {u \in Users : <<s.sm.conversationId, u>> \in conversation_members}
            s1 == [s EXCEPT !.sm.memberIds = memberIds]
        IN  task' = [task EXCEPT ![t] =
                IF ~ok THEN SMThrow(s, "query failed")
                ELSE IF Given(s.sm.recipientId) THEN [s1 EXCEPT !.pc = "sm_isGroup"]
                ELSE SMResolved(s1)]
    /\ UNCHANGED <<process_env, AI_AGENT_USER_ID, conversations, conversation_members, messages, uploads, pinecone, now>>

\* SELECT user_id FROM conversation_members WHERE conversation_id = $1
SMMembers(t) ==
    /\ task[t].pc = "sm_members"
    /\ \E ok \in BOOLEAN :
        LET s == task[t]
            memberIds == {u \in Users : <<s.sm.conversationId, u>> \in conversation_members}
            s1 == [s EXCEPT !.sm.memberIds = memberIds]
        IN  task' = [task EXCEPT ![t] =
                IF ~ok THEN SMThrow(s, "query failed")
                ELSE IF s.sm.senderId \notin memberIds
                THEN SMThrow(s1, "You are not a member of this conversation")
                ELSE IF Given(s.sm.recipientId) THEN [s1 EXCEPT !.pc = "sm_isGroup"]
                ELSE SMResolved(s1)]
    /\ UNCHANGED <<process_env, AI_AGENT_USER_ID, conversations, conversation_members, messages, uploads, pinecone, now>>

\* SELECT is_group FROM conversations WHERE id = $1
SMIsGroup(t) ==
    /\ task[t].pc = "sm_isGroup"
    /\ \E ok \in BOOLEAN :
        LET s == task[t]
        IN  task' = [task EXCEPT ![t] =
                IF ~ok THEN SMThrow(s, "query failed")
                ELSE IF s.sm.conversationId \notin DOMAIN conversations
                THEN SMThrow(s, "Conversation does not exist")
                ELSE IF conversations[s.sm.conversationId].is_group
                THEN SMThrow(s, "recipientId should not be provided for group chats")
                ELSE IF s.sm.recipientId \notin s.sm.memberIds
                THEN SMThrow(s, "recipientId does not belong to this conversation")
                ELSE SMResolved(s)]
    /\ UNCHANGED <<process_env, AI_AGENT_USER_ID, conversations, conversation_members, messages, uploads, pinecone, now>>

\* SELECT id FROM users WHERE id = $1
SMUserCheck(t) ==
    /\ task[t].pc = "sm_userCheck"
    /\ \E ok \in BOOLEAN :
        LET s == task[t]
        IN  task' = [task EXCEPT ![t] =
                IF ~ok THEN SMThrow(s, "query failed")
                ELSE IF s.sm.recipientId \notin Users THEN SMThrow(s, "Recipient does not exist")
                ELSE [s EXCEPT !.pc = "sm_findDm"]]
    /\ UNCHANGED <<process_env, AI_AGENT_USER_ID, conversations, conversation_members, messages, uploads, pinecone, now>>

\* find the existing DM conversation: dmRows[0], where there is one
SMFindDm(t) ==
    /\ task[t].pc = "sm_findDm"
    /\ LET s == task[t]
           dmRows == DmRows(s.sm.senderId, s.sm.recipientId)
       IN  \/ task' = [task EXCEPT ![t] = SMThrow(s, "query failed")]
           \/ /\ dmRows = {}
              /\ task' = [task EXCEPT ![t] = [s EXCEPT !.pc = "sm_insertConversation"]]
           \/ \E c \in dmRows :
                task' = [task EXCEPT ![t] = SMResolved([s EXCEPT !.sm.resolvedConversationId = c])]
    /\ UNCHANGED <<process_env, AI_AGENT_USER_ID, conversations, conversation_members, messages, uploads, pinecone, now>>

\* INSERT INTO conversations (is_group, created_at) VALUES (false, now()) RETURNING id
SMInsertConversation(t) ==
    /\ task[t].pc = "sm_insertConversation"
    /\ LET s == task[t]
           id == Cardinality(DOMAIN conversations) + 1
       IN  \/ /\ task' = [task EXCEPT ![t] = SMThrow(s, "query failed")]
              /\ conversations' = conversations
           \/ /\ conversations' = conversations @@ (id :> [is_group |-> FALSE])
              /\ task' = [task EXCEPT ![t] =
                    [s EXCEPT !.pc = "sm_insertMembers", !.sm.resolvedConversationId = id,
                              !.dbWrites = @ + 1]]
    /\ UNCHANGED <<process_env, AI_AGENT_USER_ID, conversation_members, messages, uploads, pinecone, now>>

\* INSERT INTO conversation_members ... VALUES ($1, $2, now()), ($1, $3, now())
SMInsertMembers(t) ==
    /\ task[t].pc = "sm_insertMembers"
    /\ LET s == task[t]
       IN  \/ /\ task' = [task EXCEPT ![t] = SMThrow(s, "query failed")]
              /\ conversation_members' = conversation_members
           \/ /\ conversation_members' = conversation_members \cup
                    {<<s.sm.resolvedConversationId, s.sm.senderId>>,
                     <<s.sm.resolvedConversationId, s.sm.recipientId>>}
              /\ task' = [task EXCEPT ![t] = SMResolved([s EXCEPT !.dbWrites = @ + 1])]
    /\ UNCHANGED <<process_env, AI_AGENT_USER_ID, conversations, messages, uploads, pinecone, now>>

\* fileUrl = await this.uploadService.uploadFile(file)
SMUpload(t) ==
    /\ task[t].pc = "sm_upload"
    /\ LET s == task[t]
       IN  \/ /\ task' = [task EXCEPT ![t] = SMThrow(s, "upload failed")]
              /\ uploads' = uploads
           \/ /\ uploads' = uploads + 1
              /\ task' = [task EXCEPT ![t] =
                    [s EXCEPT !.pc = "sm_insertMessage", !.sm.fileUrl = uploads + 1]]
    /\ UNCHANGED <<process_env, AI_AGENT_USER_ID, conversations, conversation_members, messages, pinecone, now>>

\* INSERT INTO messages (conversation_id, sender_id, content, file_url, created_at)
\* RETURNING *; then return { message, conversationId, data }
SMInsertMessage(t) ==
    /\ task[t].pc = "sm_insertMessage"
    /\ LET s == task[t]
           row == [id |-> Len(messages) + 1, conversation_id |-> s.sm.resolvedConversationId,
                   sender_id |-> s.sm.senderId, content |-> s.sm.content,
                   file_url |-> s.sm.fileUrl]
       IN  \/ /\ task' = [task EXCEPT ![t] = SMThrow(s, "query failed")]
              /\ messages' = messages
           \/ /\ messages' = InsertRow(messages, row)
              /\ task' = [task EXCEPT ![t] =
                    SMReturn([s EXCEPT !.dbWrites = @ + 1],
                             [conversationId |-> s.sm.resolvedConversationId,
                              data |-> [id |-> row.id, file_url |-> row.file_url]])]
    /\ UNCHANGED <<process_env, AI_AGENT_USER_ID, conversations, conversation_members, uploads, pinecone, now>>

(***************************************************************************)
(* AiAgentController.chat.                                                 *)
(***************************************************************************)
\* const allowedAudioTypes = [...]
allowedAudioTypes == {"audio/mpeg", "audio/wav", "audio/mp4", "audio/ogg", "audio/flac"}

\* the text transcribeAudio returns
TranscribedText == "transcribed text"

\* return { success: false, error }
ChatReject(s, error) ==
    [s EXCEPT !.pc = "chat_rejected", !.chatResponse = [success |-> FALSE, error |-> error]]

\* a controller that transcribes a file of any type
FileAccepted_any(mimetype) == TRUE

\* allowedAudioTypes.includes(file.mimetype)
FileAccepted(mimetype) == mimetype \in allowedAudioTypes

\* a controller that prefers the message field to the transcription
VoiceMessageText_textWins(dtoMessage, transcription) ==
    IF dtoMessage # "" /\ Trim(dtoMessage) # "" THEN dtoMessage ELSE transcription

\* message = transcription: use only the transcription, ignore the text message
VoiceMessageText(dtoMessage, transcription) == transcription

\* chat up to its first await
Chat(t) ==
    /\ task[t].pc = "chat_start"
    /\ LET s == task[t]
       IN  task' = [task EXCEPT ![t] =
                IF s.mimetype # "none"
                THEN IF FileAccepted(s.mimetype)
                     THEN [s EXCEPT !.pc = "chat_transcribe"]
                     ELSE ChatReject(s, "Invalid file type. Only audio files are supported for transcription.")
                ELSE IF s.dtoMessage = "" \/ Trim(s.dtoMessage) = ""
                THEN ChatReject(s, "Either a message or an audio file is required.")
                ELSE [s EXCEPT !.pc = "pm_start", !.message = s.dtoMessage,
                               !.file = FALSE, !.isVoiceMessage = FALSE]]
    /\ UNCHANGED <<process_env, AI_AGENT_USER_ID, conversations, conversation_members, messages, uploads, pinecone, now>>

\* transcriptionService.transcribeAudio(file.buffer, file.originalname), then the
\* call of processMessage(message, conversationId, userId, recipientId, file, !!file)
TranscribeAudio(t) ==
    /\ task[t].pc = "chat_transcribe"
    /\ \E ok \in BOOLEAN :
        LET s == [task[t] EXCEPT !.transcribed = TRUE]
        IN  task' = [task EXCEPT ![t] =
                IF ok
                THEN [s EXCEPT !.pc = "pm_start", !.transcription = TranscribedText,
                               !.message = VoiceMessageText(s.dtoMessage, TranscribedText),
                               !.file = TRUE, !.isVoiceMessage = TRUE]
                ELSE ChatReject(s, "Failed to transcribe audio file. Please try again.")]
    /\ UNCHANGED <<process_env, AI_AGENT_USER_ID, conversations, conversation_members, messages, uploads, pinecone, now>>

\* the file and the message field of the requests
ChatInputs ==
    {[mimetype |-> "none", message |-> UserText],
     [mimetype |-> "none", message |-> ""],
     [mimetype |-> "none", message |-> " "],
     [mimetype |-> "audio/mpeg", message |-> UserText],
     [mimetype |-> "audio/flac", message |-> ""],
     [mimetype |-> "video/mp4", message |-> UserText],
     [mimetype |-> "application/pdf", message |-> ""]}

(***************************************************************************)
(* Spec: one turn through the controller and processMessage, over a store  *)
(* that holds a DM of user 2 with user 1 (1), a group of all three users   *)
(* (2) and a DM of users 2 and 3 (3).                                      *)
(***************************************************************************)
StoredConversations ==
    (1 :> [is_group |-> FALSE]) @@ (2 :> [is_group |-> TRUE]) @@ (3 :> [is_group |-> FALSE])

StoredMembers ==
    {<<1, 1>>, <<1, 2>>, <<2, 1>>, <<2, 2>>, <<2, 3>>, <<3, 2>>, <<3, 3>>}

StoredMessages ==
    <<[id |-> 1, conversation_id |-> 1, sender_id |-> 2, content |-> "hi", file_url |-> NoId],
      [id |-> 2, conversation_id |-> 1, sender_id |-> 1, content |-> "hello", file_url |-> NoId],
      [id |-> 3, conversation_id |-> 2, sender_id |-> 3, content |-> "all", file_url |-> NoId]>>

\* the stubs of the chat model in a turn: no tool, one tool, two tools
TurnStubs ==
    {<<>>,
     <<[name |-> "sendEmail", env |-> "accepts"]>>,
     <<[name |-> "queryDocuments", env |-> "rag_error"], [name |-> "getEventsInRange", env |-> "events"]>>}

\* process.env.AI_AGENT_ID as the constructor reads it
AgentIdEnv == {"unset", "1", "2"}

\* the values of AI_AGENT_ID that are unset or not an integer
InvalidAgentIdEnv == {"unset", "", "abc", "2abc"}

\* parseInt(process.env.AI_AGENT_ID || '1'): the empty and the unset value
\* fall back to '1', a leading run of digits is the result, no digit is NaN;
\* the constructor logs an invalid value and keeps it
ParseAgentId(env) ==
    CASE env \in {"unset", ""} -> 1
      [] env = "1" -> 1
      [] env \in {"2", "2abc"} -> 2
      [] env = "abc" -> NaN

Init ==
    /\ process_env \in [AI_AGENT_ID : AgentIdEnv]
    /\ AI_AGENT_USER_ID = ParseAgentId(process_env.AI_AGENT_ID)
    /\ conversations = StoredConversations
    /\ conversation_members = StoredMembers
    /\ messages = StoredMessages
    /\ uploads = 0
    /\ pinecone = EmptyIndex
    /\ now = 0
    /\ \E u \in {2, 3}, c \in {NoId, 1, 2, 3, 4}, r \in {NoId, 1, 2}, in \in ChatInputs,
          st \in TurnStubs :
        task = [t \in Tasks |->
                    IF t = 1
                    THEN [BlankTask EXCEPT !.pc = "chat_start", !.userId = u,
                                           !.dtoMessage = in.message, !.mimetype = in.mimetype,
                                           !.conversationId = c, !.recipientId = r, !.stub = st]
                    ELSE BlankTask]

Next ==
    \E t \in Tasks :
        \/ Chat(t)
        \/ TranscribeAudio(t)
        \/ ProcessMessage(t)
        \/ GMConversation(t)
        \/ GMMember(t)
        \/ GMFetch(t)
        \/ RunAgent(t)
        \/ LlmCall(t)
        \/ \E i \in 1..MaxToolCalls : ToolCall(t, i)
        \/ ToolsReturn(t)
        \/ SaveUserMessage(t)
        \/ TextToSpeech(t)
        \/ UploadVoice(t)
        \/ SMMembers(t)
        \/ SMIsGroup(t)
        \/ SMUserCheck(t)
        \/ SMFindDm(t)
        \/ SMInsertConversation(t)
        \/ SMInsertMembers(t)
        \/ SMUpload(t)
        \/ SMInsertMessage(t)

Spec == Init /\ [][Next]_vars

(***************************************************************************)
(* SpecAgentId: one turn of a user under each value of AI_AGENT_ID that is *)
(* unset or not an integer, and under the valid value "1".                 *)
(***************************************************************************)
InitAgentId ==
    /\ process_env \in [AI_AGENT_ID : InvalidAgentIdEnv \cup {"1"}]
    /\ AI_AGENT_USER_ID = ParseAgentId(process_env.AI_AGENT_ID)
    /\ conversations = StoredConversations
    /\ conversation_members = StoredMembers
    /\ messages = StoredMessages
    /\ uploads = 0
    /\ pinecone = EmptyIndex
    /\ now = 0
    /\ \E u \in {2, 3}, c \in {NoId, 1, 3}, r \in {NoId, 1, 2}, in \in ChatInputs,
          st \in TurnStubs :
        task = [t \in Tasks |->
                    IF t = 1
                    THEN [BlankTask EXCEPT !.pc = "chat_start", !.userId = u,
                                           !.dtoMessage = in.message, !.mimetype = in.mimetype,
                                           !.conversationId = c, !.recipientId = r, !.stub = st]
                    ELSE BlankTask]

SpecAgentId == InitAgentId /\ [][Next]_vars

(***************************************************************************)
(* RagService: ingestion (processAndUpsert), search (queryDocuments) and   *)
(* answer (generateRAGResponse) over the vector index.                     *)
(* A text is a sequence of runs, each n whitespace characters or n other   *)
(* characters; the operations on strings are computed on the runs.         *)
(***************************************************************************)
Min(a, b) == IF a < b THEN a ELSE b
Max(a, b) == IF a > b THEN a ELSE b
Abs(a) == IF a < 0 THEN 0 - a ELSE a

Run(ws, n) == [ws |-> ws, n |-> n]

\* the same string without empty runs and with adjacent runs of one kind joined
RECURSIVE Normal(_)
Normal(text) ==
    IF text = <<>> THEN <<>>
    ELSE LET r == Head(text)
             rest == Normal(Tail(text))
         IN  IF r.n = 0 THEN rest
             ELSE IF rest # <<>> /\ Head(rest).ws = r.ws
                  THEN <<Run(r.ws, r.n + Head(rest).n)>> \o Tail(rest)
                  ELSE <<r>> \o rest

\* text.length
RECURSIVE TextLength(_)
TextLength(text) == IF text = <<>> THEN 0 ELSE Head(text).n + TextLength(Tail(text))

\* text.slice(from, to) and text.substring(from, to)
RECURSIVE Slice(_, _, _)
Slice(text, from, to) ==
    IF text = <<>> \/ to <= 0 THEN <<>>
    ELSE LET r == Head(text)
             rest == Slice(Tail(text), from - r.n, to - r.n)
             lo == Max(from, 0)
             hi == Min(to, r.n)
         IN  IF lo >= hi THEN rest ELSE Normal(<<Run(r.ws, hi - lo)>> \o rest)

\* text.replace(/\s+/g, ' ')
CollapseWhitespace(text) ==
    LET n == Normal(text)
    IN  [k \in 1..Len(n) |-> IF n[k].ws THEN Run(TRUE, 1) ELSE n[k]]

\* text.trim()
TrimText(text) ==
    LET n == Normal(text)
        a == IF n # <<>> /\ Head(n).ws THEN Tail(n) ELSE n
    IN  IF a # <<>> /\ Last(a).ws THEN SubSeq(a, 1, Len(a) - 1) ELSE a

\* chunkText(text, 1200, 200)
ChunkSize == 1200
ChunkOverlap == 200

\* the end of the window, not held to the length of the text
ChunkEnd_unclamped(i, size, length) == i + size

\* const end = Math.min(i + size, clean.length)
ChunkEnd(i, size, length) == Min(i + size, length)

\* chunkText with an overlap as long as the window
ChunkNext_overlapIsWindow(end, overlap) == Max(0, end - 6 * overlap)

\* i = Math.max(0, end - overlap)
ChunkNext(end, overlap) == Max(0, end - overlap)

\* const clean = text.replace(/\s+/g, ' ').trim()
ChunkClean(text) == TrimText(CollapseWhitespace(text))

\* the while loop of chunkText
RECURSIVE ChunkLoop(_, _, _, _, _)
ChunkLoop(clean, i, size, overlap, out) ==
    IF ~(i < TextLength(clean)) THEN out
    ELSE LET end == ChunkEnd(i, size, TextLength(clean))
             pushed == Append(out, Slice(clean, i, end))
         IN  IF end = TextLength(clean) THEN pushed
             ELSE ChunkLoop(clean, ChunkNext(end, overlap), size, overlap, pushed)

chunkText(text, maxTokensApprox, overlapApprox) ==
    IF ChunkClean(text) = <<>> THEN <<>>
    ELSE ChunkLoop(ChunkClean(text), 0, maxTokensApprox, overlapApprox, <<>>)

\* name.toLowerCase(), for the extensions of the model
ToLowerCase(s) ==
    CASE s = "DOCX" -> "docx"
      [] s = "PDF"  -> "pdf"
      [] OTHER      -> s

\* (file.originalname.split('.').pop() || '').toLowerCase(); a name is the
\* sequence of its parts between the dots
Extension(originalname) ==
    IF originalname = <<>> THEN "" ELSE ToLowerCase(Last(originalname))

\* ['pdf', 'docx'].includes(ext)
TypeAccepted(ext) == ext \in {"pdf", "docx"}

ParsePdfError == "Failed to parse PDF file. Please ensure the file is not corrupted."
ParseDocxError == "Failed to parse DOCX file. Please ensure the file is not corrupted."

\* extractText(file, type): every pdf is refused; mammoth reads the buffer of a docx
extractText(file, type) ==
    IF type = "pdf" THEN [threw |-> TRUE, error |-> ParsePdfError, text |-> <<>>]
    ELSE IF file.buffer.valid
         THEN [threw |-> FALSE, error |-> "none", text |-> TrimText(file.buffer.value)]
         ELSE [threw |-> TRUE, error |-> ParseDocxError, text |-> <<>>]

\* openai.embeddings.create: the vector of a text, a function of the text alone
\* (here a point on a line: the length of the text)
Embedding(input) == TextLength(input)

\* the similarity of a stored vector to the query vector: nearer is higher
Score(queryVector, values) == 0 - Abs(queryVector - values)

\* topK: number = 5
TopKDefault == 5

\* any topK vectors of the namespace, near or not
TopK_any(candidates, queryVector, topK) ==
    {S \in SUBSET candidates : Cardinality(S) = Min(topK, Cardinality(candidates))}

\* index.namespace(ns).query({ vector, topK }): the topK nearest vectors of the
\* namespace, every choice among equally near ones
TopK(candidates, queryVector, topK) ==
    {S \in SUBSET candidates :
        /\ Cardinality(S) = Min(topK, Cardinality(candidates))
        /\ \A x \in S, y \in candidates \ S :
                Score(queryVector, x.values) >= Score(queryVector, y.values)}

\* index.namespace(ns).upsert(vectors): a vector replaces the stored one of its id
Upsert(stored, vectors) ==
    {x \in stored : \A v \in vectors : v.id # x.id} \cup vectors

Range(s) == {s[k] : k \in 1..Len(s)}

\* the query check that never trims
EmptyQuery_noTrim(query) == ~query.defined \/ query.text = <<>>

\* !query || query.trim().length === 0
EmptyQuery(query) ==
    ~query.defined \/ query.text = <<>> \/ TextLength(TrimText(query.text)) = 0

\* the zero-match branch never taken
ZeroMatches_never(retrievedDocs) == FALSE

\* retrievedDocs.length === 0
ZeroMatches(retrievedDocs) == Cardinality(retrievedDocs) = 0

EmptyQueryError == "Query cannot be empty"
NoFileError == "No file provided"
UnsupportedTypeError == "Only PDF and DOCX are supported"
IndexNotConfiguredError == "PINECONE_INDEX not configured"
QueryFailedError == "Failed to query documents. Please try again."
GenerateFailedError == "Failed to generate response. Please try again."
EmbeddingsError == "embeddings.create rejected"
UpsertError == "upsert rejected"
CompletionText == "answer from the documents"
NoCompletionText == "Sorry, I could not generate a response."

\* retrievedDocs: { text, fileName, score } of every match
RetrievedDocs(matches, queryVector) ==
    {[id |-> m.id, text |-> m.text, fileName |-> m.fileName,
      score |-> Score(queryVector, m.values)] : m \in matches}

\* sources: { fileName, score, text: preview } of every retrieved document
SourcesOf(retrievedDocs) ==
    {[id |-> d.id, fileName |-> d.fileName, score |-> d.score,
      text |-> [preview |-> Slice(d.text, 0, 200), ellipsis |-> TRUE]] : d \in retrievedDocs}

RagStep(t, r) == task' = [task EXCEPT ![t].rag = r]

RagThrow(s, error) == [s EXCEPT !.pc = "rag_failed", !.error = error]

ChatTables == <<process_env, AI_AGENT_USER_ID, conversations, conversation_members, messages, uploads>>

\* processAndUpsert(userId, file): the checks, extractText and chunkText
ProcessAndUpsert(t) ==
    LET s == task[t].rag
        ext == Extension(s.file.originalname)
        extracted == extractText(s.file, ext)
        chunks == chunkText(extracted.text, ChunkSize, ChunkOverlap)
    IN  /\ s.pc = "ingest_start"
        /\ RagStep(t,
                IF ~s.file.present THEN RagThrow(s, NoFileError)
                ELSE IF ~TypeAccepted(ext) THEN RagThrow(s, UnsupportedTypeError)
                ELSE IF extracted.threw THEN RagThrow(s, extracted.error)
                ELSE IF pinecone.indexName = ""
                     THEN RagThrow([s EXCEPT !.text = extracted.text, !.chunks = chunks],
                                   IndexNotConfiguredError)
                ELSE [s EXCEPT !.text = extracted.text, !.chunks = chunks,
                               !.pc = IF chunks = <<>> THEN "ingest_upsert" ELSE "ingest_embed"])
        /\ UNCHANGED <<ChatTables, pinecone, now>>

\* the vector of chunk i of the call
VectorOf(s, i) ==
    [id |-> <<s.userId, now, i>>, values |-> Embedding(s.chunks[i + 1]),
     userId |-> s.userId, fileName |-> s.file.originalname, chunkIndex |-> i,
     text |-> s.chunks[i + 1]]

\* one turn of the embedding loop that also writes its vector to the index
IngestEmbed_upsertsEach(t) ==
    LET s == task[t].rag
        i == Len(s.vectors)
        ns == RagNamespace(s.namespace, s.userId)
    IN  /\ s.pc = "ingest_embed"
        /\ \/ /\ RagStep(t, RagThrow([s EXCEPT !.embedCalls = @ + 1], EmbeddingsError))
              /\ UNCHANGED pinecone
           \/ /\ RagStep(t, [s EXCEPT !.embedCalls = @ + 1,
                                      !.vectors = Append(@, VectorOf(s, i)),
                                      !.written = @ \cup {VectorOf(s, i)},
                                      !.pc = IF i + 1 = Len(s.chunks)
                                             THEN "ingest_upsert" ELSE "ingest_embed"])
              /\ pinecone' = [pinecone EXCEPT !.namespaces[ns] = Upsert(@, {VectorOf(s, i)})]
        /\ UNCHANGED <<ChatTables, now>>

\* one turn of the embedding loop: embeddings.create, then vectors.push
IngestEmbed(t) ==
    LET s == task[t].rag
        i == Len(s.vectors)
    IN  /\ s.pc = "ingest_embed"
        /\ \/ RagStep(t, RagThrow([s EXCEPT !.embedCalls = @ + 1], EmbeddingsError))
           \/ RagStep(t, [s EXCEPT !.embedCalls = @ + 1,
                                   !.vectors = Append(@, VectorOf(s, i)),
                                   !.pc = IF i + 1 = Len(s.chunks)
                                          THEN "ingest_upsert" ELSE "ingest_embed"])
        /\ UNCHANGED <<ChatTables, pinecone, now>>

\* await index.namespace(namespace || `user-${userId}`).upsert(vectors), and the return
IngestUpsert(t) ==
    LET s == task[t].rag
        ns == RagNamespace(s.namespace, s.userId)
        done == [s EXCEPT !.upserts = @ + 1, !.written = Range(s.vectors), !.pc = "ingest_done",
                          !.result = [NoRagResult EXCEPT !.success = TRUE, !.chunks = Len(s.chunks),
                                                                 !.namespace = ns]]
    IN  /\ s.pc = "ingest_upsert"
        /\ \/ /\ RagStep(t, RagThrow([s EXCEPT !.upserts = @ + 1], UpsertError))
              /\ UNCHANGED pinecone
           \/ /\ RagStep(t, done)
              /\ pinecone' = [pinecone EXCEPT !.namespaces[ns] = Upsert(@, Range(s.vectors))]
        /\ UNCHANGED <<ChatTables, now>>

\* Date.now() moves on
Tick ==
    /\ now < MaxClock
    /\ now' = now + 1
    /\ UNCHANGED <<task, ChatTables, pinecone>>

\* the checks at the head of queryDocuments and of generateRAGResponse
QueryChecks(s, next) ==
    IF EmptyQuery(s.query) THEN RagThrow(s, EmptyQueryError)
    ELSE IF pinecone.indexName = "" THEN RagThrow(s, IndexNotConfiguredError)
    ELSE [s EXCEPT !.pc = next]

\* embeddings.create({ model, input: query }) inside the try
QueryEmbed(s, next, failure) ==
    {RagThrow([s EXCEPT !.embedCalls = @ + 1], failure),
     [s EXCEPT !.embedCalls = @ + 1, !.pc = next]}

\* index.namespace(namespace || `user-${userId}`).query(...) inside the try
QueryIndex(s, failure) ==
    LET candidates == pinecone.namespaces[RagNamespace(s.namespace, s.userId)]
    IN  {RagThrow([s EXCEPT !.indexQueries = @ + 1], failure)}
        \cup {[s EXCEPT !.indexQueries = @ + 1, !.candidates = candidates, !.matches = m] :
                m \in TopK(candidates, Embedding(s.query.text), TopKDefault)}

\* queryDocuments(userId, query)
QueryDocuments(t) ==
    /\ task[t].rag.pc = "search_start"
    /\ RagStep(t, QueryChecks(task[t].rag, "search_embed"))
    /\ UNCHANGED <<ChatTables, pinecone, now>>

QDEmbed(t) ==
    /\ task[t].rag.pc = "search_embed"
    /\ \E r \in QueryEmbed(task[t].rag, "search_query", QueryFailedError) : RagStep(t, r)
    /\ UNCHANGED <<ChatTables, pinecone, now>>

QDQuery(t) ==
    /\ task[t].rag.pc = "search_query"
    /\ \E r \in QueryIndex(task[t].rag, QueryFailedError) :
        RagStep(t, IF r.pc = "rag_failed" THEN r
                   ELSE [r EXCEPT !.pc = "search_done",
                                  !.result = [NoRagResult EXCEPT
                                                !.success = TRUE,
                                                !.sources = RetrievedDocs(r.matches, Embedding(r.query.text)),
                                                !.total = Cardinality(r.matches),
                                                !.namespace = RagNamespace(r.namespace, r.userId)]])
    /\ UNCHANGED <<ChatTables, pinecone, now>>

\* generateRAGResponse(userId, query)
GenerateRAGResponse(t) ==
    /\ task[t].rag.pc = "answer_start"
    /\ RagStep(t, QueryChecks([task[t].rag EXCEPT
                                !.after = {u \in Tasks : task[u].rag.pc = "ingest_done"}],
                              "answer_embed"))
    /\ UNCHANGED <<ChatTables, pinecone, now>>

GREmbed(t) ==
    /\ task[t].rag.pc = "answer_embed"
    /\ \E r \in QueryEmbed(task[t].rag, "answer_query", GenerateFailedError) : RagStep(t, r)
    /\ UNCHANGED <<ChatTables, pinecone, now>>

GRQuery(t) ==
    /\ task[t].rag.pc = "answer_query"
    /\ \E r \in QueryIndex(task[t].rag, GenerateFailedError) :
        RagStep(t, IF r.pc = "rag_failed" THEN r
                   ELSE IF ZeroMatches(RetrievedDocs(r.matches, Embedding(r.query.text)))
                   THEN [r EXCEPT !.pc = "answer_done",
                                  !.result = [NoRagResult EXCEPT !.success = TRUE,
                                                                 !.answer = RagNotFoundText,
                                                                 !.sources = {}, !.total = 0]]
                   ELSE [r EXCEPT !.pc = "answer_completion"])
    /\ UNCHANGED <<ChatTables, pinecone, now>>

\* openai.chat.completions.create over the context, and the return
GRCompletion(t) ==
    LET s == task[t].rag
        docs == RetrievedDocs(s.matches, Embedding(s.query.text))
        called == [s EXCEPT !.chatCalls = @ + 1]
    IN  /\ s.pc = "answer_completion"
        /\ \/ RagStep(t, RagThrow(called, GenerateFailedError))
           \/ \E content \in {CompletionText, ""} :
                RagStep(t, [called EXCEPT !.pc = "answer_done",
                                !.result = [NoRagResult EXCEPT
                                    !.success = TRUE,
                                    !.answer = IF content = "" THEN NoCompletionText ELSE content,
                                    !.sources = SourcesOf(docs),
                                    !.total = Cardinality(SourcesOf(docs)),
                                    !.namespace = RagNamespace(s.namespace, s.userId)]])
        /\ UNCHANGED <<ChatTables, pinecone, now>>

(***************************************************************************)
(* SpecRag: two calls of RagService side by side over an index that        *)
(* already holds five documents of user 2 with the same text.              *)
(***************************************************************************)
Word(n) == <<Run(FALSE, n)>>

DocShort == Word(700)
DocLong == <<Run(FALSE, 1000), Run(TRUE, 3), Run(FALSE, 1000)>>
DocBlank == <<Run(TRUE, 2)>>

Document(name, valid, value) ==
    [present |-> TRUE, originalname |-> name, buffer |-> [valid |-> valid, value |-> value]]

Documents ==
    {NoDocument,
     Document(<<"a", "docx">>, TRUE, DocShort),
     Document(<<"b", "DOCX">>, TRUE, DocLong),
     Document(<<"c", "pdf">>, TRUE, DocShort),
     Document(<<"d", "txt">>, TRUE, DocShort),
     Document(<<"e", "docx">>, FALSE, <<>>),
     Document(<<"f", "docx">>, TRUE, DocBlank)}

Query(text) == [defined |-> TRUE, text |-> text]

Queries ==
    {UndefinedQuery, Query(<<>>), Query(<<Run(TRUE, 3)>>), Query(DocShort),
     Query(Slice(ChunkClean(DocLong), 1000, 2001)), Query(Word(5))}

\* the vectors of five earlier uploads of user 2, each a copy of the short text
StoredVectors ==
    {[id |-> <<2, k, 0>>, values |-> Embedding(DocShort), userId |-> 2,
      fileName |-> <<"n", k, "docx">>, chunkIndex |-> 0, text |-> DocShort] : k \in 1..TopKDefault}

RagRequests ==
    {[NoRag EXCEPT !.pc = "ingest_start", !.op = "ingest", !.userId = u, !.file = f] :
        u \in {2, 3}, f \in {Document(<<"a", "docx">>, TRUE, DocShort),
                             Document(<<"b", "DOCX">>, TRUE, DocLong)}}
    \cup {[NoRag EXCEPT !.pc = "answer_start", !.op = "answer", !.userId = u, !.query = q] :
        u \in {2, 3}, q \in Queries}
    \cup {[NoRag EXCEPT !.pc = "search_start", !.op = "search", !.userId = 2, !.query = q] :
        q \in Queries}

InitRag ==
    /\ process_env = [AI_AGENT_ID |-> "1"]
    /\ AI_AGENT_USER_ID = ParseAgentId(process_env.AI_AGENT_ID)
    /\ conversations = <<>>
    /\ conversation_members = {}
    /\ messages = <<>>
    /\ uploads = 0
    /\ now = TopKDefault + 1
    /\ \E name \in {"docs", ""} :
        pinecone = [indexName |-> name,
                    namespaces |-> [ns \in Namespaces |->
                                        IF ns = <<"user", 2>> THEN StoredVectors ELSE {}]]
    /\ \E f \in Documents, r \in RagRequests :
        task = [t \in Tasks |->
                    IF t = 1
                    THEN [BlankTask EXCEPT !.pc = "rag",
                            !.rag = [NoRag EXCEPT !.pc = "ingest_start", !.op = "ingest",
                                                  !.userId = 2, !.file = f]]
                    ELSE IF t = 2 THEN [BlankTask EXCEPT !.pc = "rag", !.rag = r]
                    ELSE BlankTask]

NextRag ==
    \/ Tick
    \/ \E t \in Tasks :
        \/ ProcessAndUpsert(t)
        \/ IngestEmbed(t)
        \/ IngestUpsert(t)
        \/ QueryDocuments(t)
        \/ QDEmbed(t)
        \/ QDQuery(t)
        \/ GenerateRAGResponse(t)
        \/ GREmbed(t)
        \/ GRQuery(t)
        \/ GRCompletion(t)

SpecRag == InitRag /\ [][NextRag]_vars

(***************************************************************************)
(* SpecChunk: chunkText run turn by turn of its loop on every text of up   *)
(* to MaxRuns runs.                                                        *)
(***************************************************************************)
RunLengths == {1, 900, 1200, 2300}

Texts ==
    UNION {[1..n -> {Run(ws, k) : ws \in BOOLEAN, k \in RunLengths}] : n \in 0..MaxRuns}

\* a caller passes a text to chunkText
ChunkTextCall(t) ==
    /\ task[t].rag.pc = "chunk_call"
    /\ \E text \in Texts :
        RagStep(t, [task[t].rag EXCEPT !.pc = "chunk_start", !.text = text])
    /\ UNCHANGED <<ChatTables, pinecone, now>>

\* chunkText up to the loop
ChunkTextStart(t) ==
    LET s == task[t].rag
        clean == ChunkClean(s.text)
    IN  /\ s.pc = "chunk_start"
        /\ RagStep(t, [s EXCEPT !.clean = clean, !.i = 0, !.out = <<>>,
                                !.pc = IF clean = <<>> \/ ~(0 < TextLength(clean))
                                       THEN "chunk_done" ELSE "chunk_loop"])
        /\ UNCHANGED <<ChatTables, pinecone, now>>

\* one turn of the loop of chunkText
ChunkTextLoop(t) ==
    LET s == task[t].rag
        end == ChunkEnd(s.i, ChunkSize, TextLength(s.clean))
        next == ChunkNext(end, ChunkOverlap)
    IN  /\ s.pc = "chunk_loop"
        /\ s.iterations < MaxIterations
        /\ RagStep(t, [s EXCEPT !.out = Append(@, Slice(s.clean, s.i, end)),
                                !.spans = Append(@, <<s.i, end>>),
                                !.iterations = @ + 1,
                                !.i = IF end = TextLength(s.clean) THEN s.i ELSE next,
                                !.pc = IF end = TextLength(s.clean) \/ ~(next < TextLength(s.clean))
                                       THEN "chunk_done" ELSE "chunk_loop"])
        /\ UNCHANGED <<ChatTables, pinecone, now>>

InitChunk ==
    /\ process_env = [AI_AGENT_ID |-> "1"]
    /\ AI_AGENT_USER_ID = ParseAgentId(process_env.AI_AGENT_ID)
    /\ conversations = <<>>
    /\ conversation_members = {}
    /\ messages = <<>>
    /\ uploads = 0
    /\ pinecone = EmptyIndex
    /\ now = 0
    /\ task = [t \in Tasks |->
                    IF t = 1
                    THEN [BlankTask EXCEPT !.pc = "rag", !.rag = [NoRag EXCEPT !.pc = "chunk_call"]]
                    ELSE BlankTask]

NextChunk ==
    \E t \in Tasks :
        \/ ChunkTextCall(t)
        \/ ChunkTextStart(t)
        \/ ChunkTextLoop(t)

SpecChunk == InitChunk /\ [][NextChunk]_vars

(***************************************************************************)
(* SpecTools: the tool functions called one after the other, for every     *)
(* behaviour of the service behind them and every timestamp.               *)
(***************************************************************************)
\* no resource was sent to the calendar provider
NoResource == [start |-> [dateTime |-> [local |-> "", zone |-> ""], timeZone |-> ""],
               end |-> [dateTime |-> [local |-> "", zone |-> ""], timeZone |-> ""]]

\* emailTool({ to, subject, text })
CallEmailTool(t) ==
    /\ task[t].pc = "tools_direct"
    /\ Len(task[t].calls) < MaxDirectCalls
    /\ \E env \in ServiceEnvs("sendEmail") :
        task' = [task EXCEPT ![t].calls = Append(@,
                    [tool |-> "sendEmail", env |-> env,
                     sends |-> EmailService_sendEmail(env).sendMail,
                     inserted |-> FALSE, resource |-> NoResource,
                     text |-> emailTool(env).text, threw |-> emailTool(env).threw])]
    /\ UNCHANGED <<process_env, AI_AGENT_USER_ID, conversations, conversation_members, messages, uploads, pinecone, now>>

\* getEventsInRangeTool({ startTime, endTime })
CallGetEventsTool(t) ==
    /\ task[t].pc = "tools_direct"
    /\ Len(task[t].calls) < MaxDirectCalls
    /\ \E env \in CalendarListEnvs :
        task' = [task EXCEPT ![t].calls = Append(@,
                    [tool |-> "getEventsInRange", env |-> env, sends |-> 0,
                     inserted |-> FALSE, resource |-> NoResource,
                     text |-> getEventsInRangeTool(env).text,
                     threw |-> getEventsInRangeTool(env).threw])]
    /\ UNCHANGED <<process_env, AI_AGENT_USER_ID, conversations, conversation_members, messages, uploads, pinecone, now>>

\* calendarEventTool({ summary, description, startTime, endTime, attendees })
CallCalendarEventTool(t) ==
    /\ task[t].pc = "tools_direct"
    /\ Len(task[t].calls) < MaxDirectCalls
    /\ \E env \in ServiceEnvs("addCalendarEvent"), startTime \in Timestamps, endTime \in Timestamps :
        task' = [task EXCEPT ![t].calls = Append(@,
                    [tool |-> "addCalendarEvent", env |-> env, sends |-> 0,
                     inserted |-> calendarEventSchema(startTime, endTime),
                     resource |-> IF calendarEventSchema(startTime, endTime)
                                  THEN AddEventResource(startTime, endTime) ELSE NoResource,
                     text |-> calendarEventTool(env).text, threw |-> calendarEventTool(env).threw])]
    /\ UNCHANGED <<process_env, AI_AGENT_USER_ID, conversations, conversation_members, messages, uploads, pinecone, now>>

InitTools ==
    /\ process_env = [AI_AGENT_ID |-> "1"]
    /\ AI_AGENT_USER_ID = ParseAgentId(process_env.AI_AGENT_ID)
    /\ conversations = <<>>
    /\ conversation_members = {}
    /\ messages = <<>>
    /\ uploads = 0
    /\ pinecone = EmptyIndex
    /\ now = 0
    /\ task = [t \in Tasks |-> IF t = 1 THEN [BlankTask EXCEPT !.pc = "tools_direct"] ELSE BlankTask]

NextTools ==
    \E t \in Tasks :
        \/ CallEmailTool(t)
        \/ CallGetEventsTool(t)
        \/ CallCalendarEventTool(t)

SpecTools == InitTools /\ [][NextTools]_vars

(***************************************************************************)
(* AiCallController.toolRun: POST ai-call/tool-run { name, args, userId }. *)
(* An argument is undefined, the empty string or a value.                  *)
(***************************************************************************)
ArgValues == {"undefined", "", "value"}

\* !value
Falsy(value) == value \in {"undefined", ""}

ToolRunNames == {"SEND_EMAIL", "GET_EVENTS", "SCHEDULE_EVENT", "QUERY_DOCUMENTS", "DROP_TABLE", "undefined"}

NoArgs ==
    [to |-> "undefined", subject |-> "undefined", body |-> "undefined", title |-> "undefined",
     startTime |-> "undefined", endTime |-> "undefined", query |-> "undefined"]

\* the bodies of the requests: the arguments the named tool reads, and userId
ToolRunBodies ==
    {[name |-> "SEND_EMAIL", userId |-> NoId,
      args |-> [NoArgs EXCEPT !.to = a, !.subject = b, !.body = c]] : a, b, c \in ArgValues}
    \cup {[name |-> "SCHEDULE_EVENT", userId |-> NoId,
           args |-> [NoArgs EXCEPT !.title = a, !.startTime = b, !.endTime = c]] : a, b, c \in ArgValues}
    \cup {[name |-> "QUERY_DOCUMENTS", userId |-> u, args |-> [NoArgs EXCEPT !.query = a]] :
            a \in ArgValues, u \in {NoId, 2}}
    \cup {[name |-> n, userId |-> u, args |-> NoArgs] :
            n \in {"GET_EVENTS", "DROP_TABLE", "undefined"}, u \in {NoId, 2}}

\* the service a case of the switch calls
ToolRunService(name) ==
    CASE name = "SEND_EMAIL"      -> "sendEmail"
      [] name = "GET_EVENTS"      -> "getEventsInRange"
      [] name = "SCHEDULE_EVENT"  -> "addCalendarEvent"
      [] name = "QUERY_DOCUMENTS" -> "queryDocuments"
      [] OTHER                    -> "none"

\* the checks of the QUERY_DOCUMENTS case without the one of userId
ToolRunCheck_noUserId(name, args, userId) ==
    CASE name = "SEND_EMAIL" ->
            IF Falsy(args.to) \/ Falsy(args.subject) \/ Falsy(args.body)
            THEN "Missing email parameters" ELSE "ok"
      [] name = "SCHEDULE_EVENT" ->
            IF Falsy(args.title) \/ Falsy(args.startTime) \/ Falsy(args.endTime)
            THEN "Missing event parameters" ELSE "ok"
      [] name = "QUERY_DOCUMENTS" ->
            IF Falsy(args.query) THEN "Missing query parameter" ELSE "ok"
      [] OTHER -> "ok"

\* the checks a case of the switch makes before it calls its service: the
\* message of the error thrown, or "ok"
ToolRunCheck(name, args, userId) ==
    CASE name = "SEND_EMAIL" ->
            IF Falsy(args.to) \/ Falsy(args.subject) \/ Falsy(args.body)
            THEN "Missing email parameters" ELSE "ok"
      [] name = "SCHEDULE_EVENT" ->
            IF Falsy(args.title) \/ Falsy(args.startTime) \/ Falsy(args.endTime)
            THEN "Missing event parameters" ELSE "ok"
      [] name = "QUERY_DOCUMENTS" ->
            IF Falsy(args.query) THEN "Missing query parameter"
            ELSE IF userId = NoId THEN "User ID is required for document queries"
            ELSE "ok"
      [] OTHER -> "ok"

\* how the service behind a case can end
ToolRunEnvs(name) ==
    IF name = "GET_EVENTS" THEN CalendarListEnvs ELSE ServiceEnvs(ToolRunService(name))

\* the service threw
ToolRunServiceThrew(name, env) ==
    CASE name = "SEND_EMAIL"      -> EmailService_sendEmail(env).threw
      [] name = "GET_EVENTS"      -> CalendarService_getEventsInRange(env).threw
      [] name = "SCHEDULE_EVENT"  -> CalendarService_addEvent(env).threw
      [] name = "QUERY_DOCUMENTS" -> RagService_generateRAGResponse(env).threw

\* what toolRun answers: a body with success, or an HttpException with status 400
ToolRunResponse(body, env) ==
    LET check == ToolRunCheck(body.name, body.args, body.userId)
    IN  IF ToolRunService(body.name) = "none"
        THEN [status |-> 201, success |-> FALSE, error |-> "Unknown tool", called |-> "none"]
        ELSE IF check # "ok"
        THEN [status |-> 400, success |-> FALSE, error |-> check, called |-> "none"]
        ELSE IF ToolRunServiceThrew(body.name, env)
        THEN [status |-> 400, success |-> FALSE, error |-> "service error",
              called |-> ToolRunService(body.name)]
        ELSE [status |-> 201, success |-> TRUE, error |-> "none",
              called |-> ToolRunService(body.name)]

\* toolRun(body)
ToolRun(t) ==
    /\ task[t].pc = "tool_run"
    /\ Len(task[t].runs) < MaxToolRuns
    /\ \E body \in ToolRunBodies :
        \E env \in IF ToolRunService(body.name) # "none"
                        /\ ToolRunCheck(body.name, body.args, body.userId) = "ok"
                   THEN ToolRunEnvs(body.name) ELSE {"not called"} :
            task' = [task EXCEPT ![t].runs =
                        Append(@, [body |-> body, response |-> ToolRunResponse(body, env)])]
    /\ UNCHANGED <<process_env, AI_AGENT_USER_ID, conversations, conversation_members, messages, uploads, pinecone, now>>

InitToolRun ==
    /\ process_env = [AI_AGENT_ID |-> "1"]
    /\ AI_AGENT_USER_ID = ParseAgentId(process_env.AI_AGENT_ID)
    /\ conversations = <<>>
    /\ conversation_members = {}
    /\ messages = <<>>
    /\ uploads = 0
    /\ pinecone = EmptyIndex
    /\ now = 0
    /\ task = [t \in Tasks |-> IF t = 1 THEN [BlankTask EXCEPT !.pc = "tool_run"] ELSE BlankTask]

NextToolRun == \E t \in Tasks : ToolRun(t)

SpecToolRun == InitToolRun /\ [][NextToolRun]_vars

(***************************************************************************)
(* SpecText: one turn without a file, through either variant of the        *)
(* controller, for every text of the message field.                        *)
(***************************************************************************)
\* AiAgentController.chat, text-only variant: processMessage(aiChatDto.message,
\* aiChatDto.conversationId, userId, aiChatDto.recipientId)
ChatTextOnly(t) ==
    /\ task[t].pc = "chat_text_start"
    /\ task' = [task EXCEPT ![t] =
            [@ EXCEPT !.pc = "pm_start", !.message = task[t].dtoMessage,
                      !.file = FALSE, !.isVoiceMessage = FALSE]]
    /\ UNCHANGED <<process_env, AI_AGENT_USER_ID, conversations, conversation_members, messages, uploads, pinecone, now>>

\* the texts of the message field: strings, as the DTO asks
DtoMessages == {UserText, "", " "}

InitText ==
    /\ process_env = [AI_AGENT_ID |-> "1"]
    /\ AI_AGENT_USER_ID = ParseAgentId(process_env.AI_AGENT_ID)
    /\ conversations = StoredConversations
    /\ conversation_members = StoredMembers
    /\ messages = StoredMessages
    /\ uploads = 0
    /\ pinecone = EmptyIndex
    /\ now = 0
    /\ \E u \in {2, 3}, c \in {NoId, 1}, r \in {NoId, 1}, m \in DtoMessages, st \in TurnStubs,
          start \in {"chat_start", "chat_text_start"} :
        task = [t \in Tasks |->
                    IF t = 1
                    THEN [BlankTask EXCEPT !.pc = start, !.userId = u, !.dtoMessage = m,
                                           !.conversationId = c, !.recipientId = r, !.stub = st]
                    ELSE BlankTask]

NextText ==
    \E t \in Tasks :
        \/ Chat(t)
        \/ ChatTextOnly(t)
        \/ ProcessMessage(t)
        \/ GMConversation(t)
        \/ GMMember(t)
        \/ GMFetch(t)
        \/ RunAgent(t)
        \/ LlmCall(t)
        \/ \E i \in 1..MaxToolCalls : ToolCall(t, i)
        \/ ToolsReturn(t)
        \/ SaveUserMessage(t)
        \/ SMMembers(t)
        \/ SMIsGroup(t)
        \/ SMUserCheck(t)
        \/ SMFindDm(t)
        \/ SMInsertConversation(t)
        \/ SMInsertMembers(t)
        \/ SMInsertMessage(t)

SpecText == InitText /\ [][NextText]_vars

(***************************************************************************)
(* SpecConc: concurrent calls of sendMessage that carry a recipientId      *)
(* only, between users 1 and 3, who share no conversation but the group.   *)
(***************************************************************************)
\* sendMessage(senderId, { recipientId, content }) called directly
SendMessage(t) ==
    /\ task[t].pc = "sm_start"
    /\ LET s == task[t]
       IN  task' = [task EXCEPT ![t] =
                SMEnter(s, "direct", s.userId, s.conversationId, s.recipientId, s.message, s.file)]
    /\ UNCHANGED <<process_env, AI_AGENT_USER_ID, conversations, conversation_members, messages, uploads, pinecone, now>>

\* the two users of the calls, sender first
DirectPairs == {<<1, 3>>, <<3, 1>>}

InitConc ==
    /\ process_env = [AI_AGENT_ID |-> "1"]
    /\ AI_AGENT_USER_ID = ParseAgentId(process_env.AI_AGENT_ID)
    /\ conversations = StoredConversations
    /\ conversation_members = StoredMembers
    /\ messages = StoredMessages
    /\ uploads = 0
    /\ pinecone = EmptyIndex
    /\ now = 0
    /\ \E pair \in [Tasks -> DirectPairs] :
        task = [t \in Tasks |->
                    [BlankTask EXCEPT !.pc = "sm_start", !.userId = pair[t][1],
                                      !.recipientId = pair[t][2], !.message = UserText]]

NextConc ==
    \E t \in Tasks :
        \/ SendMessage(t)
        \/ SMUserCheck(t)
        \/ SMFindDm(t)
        \/ SMInsertConversation(t)
        \/ SMInsertMembers(t)
        \/ SMInsertMessage(t)

SpecConc == InitConc /\ [][NextConc]_vars

(***************************************************************************)
(* SpecSend: two concurrent calls of sendMessage of every shape: by        *)
(* conversationId, by recipientId, with both, with neither, with and       *)
(* without content and file, by members and by others.                     *)
(***************************************************************************)
SendCall(senderId, conversationId, recipientId, content, file) ==
    [senderId |-> senderId, conversationId |-> conversationId, recipientId |-> recipientId,
     content |-> content, file |-> file]

SendCalls ==
    {SendCall(2, 1, NoId, UserText, FALSE),
     SendCall(3, 1, NoId, UserText, FALSE),
     SendCall(2, 1, 1, UserText, TRUE),
     SendCall(2, 1, 3, UserText, FALSE),
     SendCall(2, 2, 1, UserText, FALSE),
     SendCall(2, 4, NoId, UserText, FALSE),
     SendCall(1, NoId, 3, UserText, FALSE),
     SendCall(3, NoId, 1, UserText, FALSE),
     SendCall(2, NoId, 4, UserText, FALSE),
     SendCall(2, NoId, NoId, UserText, FALSE),
     SendCall(2, 1, NoId, "", FALSE),
     SendCall(2, 1, NoId, "", TRUE)}

InitSend ==
    /\ process_env = [AI_AGENT_ID |-> "1"]
    /\ AI_AGENT_USER_ID = ParseAgentId(process_env.AI_AGENT_ID)
    /\ conversations = StoredConversations
    /\ conversation_members = StoredMembers
    /\ messages = StoredMessages
    /\ uploads = 0
    /\ pinecone = EmptyIndex
    /\ now = 0
    /\ \E call \in [Tasks -> SendCalls] :
        task = [t \in Tasks |->
                    [BlankTask EXCEPT !.pc = "sm_start", !.userId = call[t].senderId,
                                      !.conversationId = call[t].conversationId,
                                      !.recipientId = call[t].recipientId,
                                      !.message = call[t].content, !.file = call[t].file]]

NextSend ==
    \E t \in Tasks :
        \/ SendMessage(t)
        \/ SMMembers(t)
        \/ SMIsGroup(t)
        \/ SMUserCheck(t)
        \/ SMFindDm(t)
        \/ SMInsertConversation(t)
        \/ SMInsertMembers(t)
        \/ SMUpload(t)
        \/ SMInsertMessage(t)

SpecSend == InitSend /\ [][NextSend]_vars

(***************************************************************************)
(* SpecTurns: two concurrent text turns of processMessage, in the DM of    *)
(* user 2 with the agent, by its recipientId, and by user 3, who has no DM *)
(* with the agent yet.                                                     *)
(***************************************************************************)
\* userId, conversationId, recipientId
TurnCalls == {<<2, 1, NoId>>, <<2, NoId, 1>>, <<3, NoId, 1>>, <<3, 1, NoId>>}

InitTurns ==
    /\ process_env = [AI_AGENT_ID |-> "1"]
    /\ AI_AGENT_USER_ID = ParseAgentId(process_env.AI_AGENT_ID)
    /\ conversations = StoredConversations
    /\ conversation_members = StoredMembers
    /\ messages = StoredMessages
    /\ uploads = 0
    /\ pinecone = EmptyIndex
    /\ now = 0
    /\ \E call \in [Tasks -> TurnCalls] :
        task = [t \in Tasks |->
                    [BlankTask EXCEPT !.pc = "pm_start", !.userId = call[t][1],
                                      !.conversationId = call[t][2], !.recipientId = call[t][3],
                                      !.message = UserText]]

NextTurns ==
    \E t \in Tasks :
        \/ ProcessMessage(t)
        \/ GMConversation(t)
        \/ GMMember(t)
        \/ GMFetch(t)
        \/ RunAgent(t)
        \/ LlmCall(t)
        \/ SaveUserMessage(t)
        \/ SMMembers(t)
        \/ SMIsGroup(t)
        \/ SMUserCheck(t)
        \/ SMFindDm(t)
        \/ SMInsertConversation(t)
        \/ SMInsertMembers(t)
        \/ SMInsertMessage(t)

SpecTurns == InitTurns /\ [][NextTurns]_vars

(***************************************************************************)
(* SpecAgent: one call of runAgent, for every history and stub.             *)
(***************************************************************************)
InitAgent ==
    /\ process_env = [AI_AGENT_ID |-> "1"]
    /\ AI_AGENT_USER_ID = ParseAgentId(process_env.AI_AGENT_ID)
    /\ conversations = <<>>
    /\ conversation_members = {}
    /\ messages = <<>>
    /\ uploads = 0
    /\ pinecone = EmptyIndex
    /\ now = 0
    /\ \E h \in AgentHistories, st \in Stubs(MaxToolCalls) :
        task = [t \in Tasks |->
                    IF t = 1
                    THEN [BlankTask EXCEPT !.pc = "runAgent",
                                           !.userId = IF Len(h) = 1 THEN 3 ELSE 2,
                                           !.messageHistory = h, !.stub = st]
                    ELSE BlankTask]

NextAgent ==
    \E t \in Tasks :
        \/ RunAgent(t)
        \/ LlmCall(t)
        \/ \E i \in 1..MaxToolCalls : ToolCall(t, i)
        \/ ToolsReturn(t)

SpecAgent == InitAgent /\ [][NextAgent]_vars

(***************************************************************************)
(* Properties of the agent loop.                                           *)
(***************************************************************************)
\* runAgent has returned (or thrown)
AgentStopped(s) == s.aiResponse # NoResponse \/ s.pc = "agent_threw"

\* the messages the run added to the history it was given
Added(s) == {k \in 1..Len(s.messages) : k > Len(s.messageHistory)}

\* the model requested a tool on every turn of the run
NeverFinalized(s) ==
    /\ s.modelCalls > 0
    /\ \A k \in Added(s) : s.messages[k].type = "ai" => Len(s.messages[k].tool_calls) > 0

\* the run was aborted at the ceiling
HitCeiling(s) == AgentStopped(s) /\ s.graphError = "GraphRecursionError"

\* C1 as claimed: at most RecursionLimit model calls in every run, and a run whose
\* model requests a tool on every turn stops after exactly RecursionLimit model
\* calls with the fallback answer.
C1_Original ==
    \A t \in Tasks :
        /\ task[t].modelCalls <= RecursionLimit
        /\ HitCeiling(task[t]) /\ NeverFinalized(task[t])
            => /\ task[t].modelCalls = RecursionLimit
               /\ task[t].aiResponse = RecursionFallback

\* C1 as amended: at most RecursionLimit model calls in every run; the limit counts
\* supersteps (model turns and tool turns alike), so a run whose model requests a
\* tool on every turn stops after RecursionLimit \div 2 model calls, or one more,
\* and then yields the fallback answer.
C1_ModelCallsBounded ==
    \A t \in Tasks :
        /\ task[t].modelCalls <= RecursionLimit
        /\ task[t].modelCalls <= RecursionLimit \div 2 + 1
        /\ HitCeiling(task[t]) /\ NeverFinalized(task[t])
            => /\ task[t].modelCalls \in {RecursionLimit \div 2, RecursionLimit \div 2 + 1}
               /\ task[t].aiResponse = RecursionFallback

C1_Witness ==
    \E t \in Tasks :
        /\ HitCeiling(task[t]) /\ NeverFinalized(task[t])
        /\ task[t].modelCalls = RecursionLimit \div 2
        /\ task[t].toolTurns = RecursionLimit \div 2
        /\ task[t].aiResponse = RecursionFallback

\* C2: a run aborted at the ceiling does not throw out of runAgent; runAgent
\* returns the fixed answer that asks to rephrase or to ask for something simpler.
C2_CeilingFallback ==
    \A t \in Tasks :
        task[t].graphError = "GraphRecursionError"
            => /\ task[t].pc # "agent_threw"
               /\ task[t].aiResponse = RecursionFallback

C2_Witness ==
    \E t \in Tasks :
        /\ task[t].graphError = "GraphRecursionError"
        /\ task[t].step >= RecursionLimit
        /\ task[t].aiResponse = RecursionFallback

\* the tool calls the model requested in the run
RequestedIn(s) ==
    UNION {{s.messages[k].tool_calls[i] : i \in 1..Len(s.messages[k].tool_calls)} : k \in Added(s)}

\* the ToolMessages of the run
ToolMessagesOf(s) == {k \in Added(s) : s.messages[k].type = "tool"}

\* C4: where the service behind a tool throws, no exception leaves the tool, and
\* the text the tool returns for the failure is the content of the call's
\* ToolMessage in the history; the run is not ended by it.
C4_ToolsFailSoft ==
    \A t \in Tasks :
        LET s == task[t]
        IN  /\ \A r \in BagToSet(s.toolLog) : ~r.threw
            /\ \A k \in ToolMessagesOf(s) : \A c \in RequestedIn(s) :
                    (c.id = s.messages[k].tool_call_id /\ ServiceThrew(c.name, c.env))
                        => s.messages[k].content = ToolFailureText(c.name)
            /\ \A r \in BagToSet(s.toolLog) :
                    (ServiceThrew(r.name, r.env) /\ s.pc # "tools")
                        => \E k \in ToolMessagesOf(s) :
                                /\ s.messages[k].tool_call_id = r.id
                                /\ s.messages[k].content = ToolFailureText(r.name)
            /\ s.graphError \in {"none", "GraphRecursionError", "ModelError"}

\* Done is reached, with an answer of the model, after the services of two
\* different tools threw
C4_Witness ==
    \E t \in Tasks :
        LET s == task[t]
        IN  /\ AgentStopped(s) /\ s.graphError = "none"
            /\ s.aiResponse.content = "final answer"
            /\ Cardinality({r.name : r \in {x \in BagToSet(s.toolLog) : ServiceThrew(x.name, x.env)}}) >= 2
            /\ \E k \in ToolMessagesOf(s) : s.messages[k].content = EmailIssueText

\* a model turn that produced an output, a tool turn
ModelTurn(s, s2) == s2.modelCalls = s.modelCalls + 1 /\ Len(s2.messages) = Len(s.messages) + 1
ToolTurn(s, s2) == s2.toolTurns = s.toolTurns + 1

\* after a model turn: to the tools iff the output carries a tool call, otherwise
\* Done with that output as the answer of runAgent
Routed(s2) ==
    LET out == Last(s2.messages)
    IN  /\ s2.pc = "tools" <=> Len(out.tool_calls) > 0
        /\ Len(out.tool_calls) = 0
            => /\ s2.pc = "agent_returned"
               /\ s2.graphError = "none"
               /\ s2.finalMessage = out
               /\ s2.aiResponse.content = out.content

Aborted(s2) ==
    /\ s2.pc = "agent_returned"
    /\ s2.graphError = "GraphRecursionError"
    /\ s2.aiResponse = RecursionFallback

\* C5 as claimed: after every model turn the loop goes to the tool turn iff the
\* output carries a tool call and otherwise to Done with that output as the
\* answer; after every tool turn it goes back to a model turn.
C5_Original ==
    [][\A t \in Tasks :
            /\ ModelTurn(task[t], task'[t]) => Routed(task'[t])
            /\ ToolTurn(task[t], task'[t]) => task'[t].pc = "llmCall"]_vars

\* C5 as amended: the same while fewer than RecursionLimit supersteps have run;
\* from the RecursionLimit-th superstep on the loop may instead abort with the
\* fallback answer.
C5_Routing ==
    [][\A t \in Tasks :
            /\ ModelTurn(task[t], task'[t])
                => \/ Routed(task'[t])
                   \/ task'[t].step >= RecursionLimit /\ Aborted(task'[t])
            /\ ToolTurn(task[t], task'[t])
                => \/ task'[t].pc = "llmCall"
                   \/ task'[t].step >= RecursionLimit /\ Aborted(task'[t])]_vars

\* a tool turn has led back to a model turn, whose output led to the tools again
C5_Witness ==
    \E t \in Tasks :
        /\ task[t].pc = "tools"
        /\ task[t].modelCalls = 2
        /\ task[t].toolTurns = 1
        /\ task[t].step < RecursionLimit

\* the tool calls of message k all have their ToolMessage, right after it and in
\* the order of the requests, and all have run
RoundComplete(s, k) ==
    LET calls == s.messages[k].tool_calls
    IN  /\ Len(s.messages) >= k + Len(calls)
        /\ \A i \in 1..Len(calls) :
            /\ s.messages[k + i].type = "tool"
            /\ s.messages[k + i].tool_call_id = calls[i].id
            /\ s.messages[k + i].name = calls[i].name
            /\ \E r \in BagToSet(s.toolLog) : r.id = calls[i].id

\* C6: when the next model call is issued (and ever after), every tool call the
\* model had requested has run and completed, and the results stand in the
\* history in the order of the requests.
C6_AllToolsBeforeModel ==
    \A t \in Tasks :
        LET s == task[t]
        IN  \A k \in Added(s) :
                (/\ s.messages[k].type = "ai"
                 /\ Len(s.messages[k].tool_calls) > 0
                 /\ (k < Len(s.messages) \/ s.pc = "llmCall"))
                    => RoundComplete(s, k)

\* the model is about to be called after a turn of two tool calls
C6_Witness ==
    \E t \in Tasks :
        LET s == task[t]
        IN  /\ s.pc = "llmCall"
            /\ Len(s.messages) >= Len(s.messageHistory) + 3
            /\ Last(s.messages).type = "tool"
            /\ s.messages[Len(s.messages) - 1].type = "tool"
            /\ Len(s.messages[Len(s.messages) - 2].tool_calls) = 2

\* the row of the message with the id
RowOf(id) == CHOOSE r \in {messages[k] : k \in 1..Len(messages)} : r.id = id

\* the position of the message with the id in creation order
PositionOf(id) == CHOOSE k \in 1..Len(messages) : messages[k].id = id

\* the store holds the message with the id
Persisted(id) == \E k \in 1..Len(messages) : messages[k].id = id

\* the turn went past the validations of processMessage
Started(s) ==
    s.pc \notin {"off", "chat_start", "chat_text_start", "chat_transcribe", "chat_rejected", "pm_start"}

\* the user's message is written and sendMessage has returned its row
UserSaved(s) == s.userMessageResult # NoResult

\* the agent's reply is written and sendMessage has returned its row
ReplySaved(s) == s.aiMessage # NoResult

\* C3: when the language model fails for a reason other than the ceiling, runAgent
\* does not throw but returns the fixed answer that reports an error; the turn
\* then fails only where a write to the message store fails, and a turn that
\* completes has persisted the user's message, then that answer as the agent's
\* reply in the same conversation, and returns success.
C3_ModelFailureFallback ==
    \A t \in Tasks :
        LET s == task[t]
        IN  s.graphError = "ModelError"
            => /\ s.pc # "agent_threw"
               /\ s.aiResponse = ErrorFallback
               /\ s.pc = "pm_failed" => s.failedAt \in {"saveUser", "saveAgent"}
               /\ s.pc = "pm_done"
                    => /\ s.result.success
                       /\ s.result.aiResponse = ErrorFallback.content
                       /\ UserSaved(s) /\ Persisted(s.userMessageResult.data.id)
                       /\ RowOf(s.userMessageResult.data.id).content = s.message
                       /\ ReplySaved(s) /\ Persisted(s.aiMessage.data.id)
                       /\ RowOf(s.aiMessage.data.id).content = ErrorFallback.content
                       /\ RowOf(s.aiMessage.data.id).sender_id = AI_AGENT_USER_ID
                       /\ RowOf(s.aiMessage.data.id).conversation_id
                            = RowOf(s.userMessageResult.data.id).conversation_id
                       /\ PositionOf(s.userMessageResult.data.id) < PositionOf(s.aiMessage.data.id)

C3_Witness ==
    \E t \in Tasks :
        /\ task[t].graphError = "ModelError"
        /\ task[t].pc = "pm_done"
        /\ task[t].result.success
        /\ RowOf(task[t].aiMessage.data.id).content = ErrorFallback.content

\* C7: once the agent's reply is written, the user's message is in the store and
\* was written before it; and from the moment the user's message is written it
\* stays in the store, with its sender and text, whatever happens afterwards: a
\* failed speech synthesis, a failed upload or a failed write of the reply.
C7_UserMessageFirst ==
    \A t \in Tasks :
        LET s == task[t]
        IN  /\ ReplySaved(s)
                => /\ UserSaved(s)
                   /\ Persisted(s.aiMessage.data.id)
                   /\ Persisted(s.userMessageResult.data.id)
                   /\ PositionOf(s.userMessageResult.data.id) < PositionOf(s.aiMessage.data.id)
            /\ UserSaved(s)
                => /\ Persisted(s.userMessageResult.data.id)
                   /\ RowOf(s.userMessageResult.data.id).sender_id = s.userId
                   /\ RowOf(s.userMessageResult.data.id).content = s.message
            /\ s.sm.caller = "agent" => UserSaved(s)

\* a voice turn whose upload of the synthesized speech was attempted and whose
\* reply could not be written: the user's message is in the store, the reply is not
C7_Witness ==
    \E t \in Tasks :
        /\ task[t].pc = "pm_failed"
        /\ task[t].failedAt = "saveAgent"
        /\ task[t].isVoiceMessage
        /\ task[t].aiResponseFile
        /\ UserSaved(task[t])
        /\ ~ReplySaved(task[t])
        /\ Persisted(task[t].userMessageResult.data.id)
        /\ Len(messages) = Len(StoredMessages) + 1

\* C8: in a turn that succeeds, the agent's reply is stored under the conversation
\* id that the write of the user's message returned, that id is the conversationId
\* of the value returned to the caller, and the user's message is stored under it
\* too; this holds for a turn that came with a conversationId and for one that
\* came with a recipientId only.
C8_ReplyConversation ==
    \A t \in Tasks :
        LET s == task[t]
        IN  s.pc = "pm_done"
            => /\ s.userMessageResult.conversationId # NoId
               /\ RowOf(s.aiMessage.data.id).conversation_id = s.userMessageResult.conversationId
               /\ RowOf(s.userMessageResult.data.id).conversation_id = s.userMessageResult.conversationId
               /\ s.aiMessage.conversationId = s.userMessageResult.conversationId
               /\ s.result.conversationId = s.userMessageResult.conversationId
               /\ s.result.messageId = s.aiMessage.data.id

\* a turn with a recipientId only, for which sendMessage created the conversation
C8_Witness ==
    \E t \in Tasks :
        /\ task[t].pc = "pm_done"
        /\ task[t].conversationId = NoId
        /\ task[t].recipientId = AI_AGENT_USER_ID
        /\ task[t].result.conversationId \notin DOMAIN StoredConversations
        /\ RowOf(task[t].aiMessage.data.id).conversation_id = task[t].result.conversationId

\* nothing was written to the message store, and no file was uploaded
NoWrites(s) ==
    /\ s.dbWrites = 0
    /\ messages = StoredMessages
    /\ conversations = StoredConversations
    /\ conversation_members = StoredMembers
    /\ uploads = 0

\* neither the model nor a tool was called, and the history was not read
NoAgentWork(s) ==
    /\ s.modelCalls = 0
    /\ s.toolLog = EmptyBag
    /\ s.messages = <<>>
    /\ ~s.historyLoaded

\* the turn came with neither conversationId nor recipientId
MissingBoth(s) == s.conversationId = NoId /\ s.recipientId = NoId

\* C9 as claimed: a turn with neither conversationId nor recipientId is answered
\* with the validation error, and nothing is written and neither the model nor a
\* tool is called.
C9_Original ==
    \A t \in Tasks :
        Started(task[t]) /\ MissingBoth(task[t])
            => /\ task[t].pc = "pm_failed"
               /\ task[t].error = "Either conversationId or recipientId must be provided."
               /\ NoWrites(task[t])
               /\ NoAgentWork(task[t])

\* C9, the part the code keeps: a turn with neither conversationId nor recipientId
\* fails at the validation, with the same generic failure every other error of
\* processMessage ends in, and nothing is written and neither the model nor a tool
\* is called.
C9_MissingBothRejected ==
    \A t \in Tasks :
        Started(task[t]) /\ MissingBoth(task[t])
            => /\ task[t].pc = "pm_failed"
               /\ task[t].failedAt = "validation"
               /\ task[t].error = GenericFailure
               /\ NoWrites(task[t])
               /\ NoAgentWork(task[t])

C9_Witness ==
    \E t \in Tasks :
        /\ MissingBoth(task[t])
        /\ task[t].pc = "pm_failed"
        /\ task[t].failedAt = "validation"
        /\ task[t].error = GenericFailure

\* the turn names a recipient other than the agent
WrongRecipient(s) == s.recipientId # NoId /\ s.recipientId # AI_AGENT_USER_ID

\* C10: a turn whose recipientId is present and is not the agent's id, with or
\* without a conversationId, is rejected at the validation: the history is not
\* read, the model and the tools are not called, nothing is written.
C10_WrongRecipientRejected ==
    \A t \in Tasks :
        Started(task[t]) /\ WrongRecipient(task[t])
            => /\ task[t].pc = "pm_failed"
               /\ task[t].failedAt = "validation"
               /\ NoWrites(task[t])
               /\ NoAgentWork(task[t])

\* rejected turns for a wrong recipient, one with a conversationId of a stored
\* conversation
C10_Witness ==
    \E t \in Tasks :
        /\ WrongRecipient(task[t])
        /\ task[t].conversationId \in DOMAIN StoredConversations
        /\ task[t].pc = "pm_failed"
        /\ task[t].failedAt = "validation"

\* the namespaces the retrieval engine was queried in during the turn
QueriedNamespaces(s) ==
    {RagNamespace(NoId, r.userId) : r \in {e \in BagToSet(s.toolLog) : e.name = "queryDocuments"}}

\* C11 as claimed: in a turn by user U every query of the document-search tool
\* goes to the namespace user-U, never to the namespace of another user.
C11_Original ==
    \A t \in Tasks : QueriedNamespaces(task[t]) \subseteq {<<"user", task[t].userId>>}

\* C11, what the code does: the tool reads the user from configurable, which
\* runAgent never passes, so every query goes to the namespace user-1.
C11_AlwaysFallbackUser ==
    \A t \in Tasks : QueriedNamespaces(task[t]) \subseteq {<<"user", 1>>}

\* a turn by user 2 whose document search ran in the namespace user-1
C11_Witness ==
    \E t \in Tasks :
        /\ task[t].userId = 2
        /\ QueriedNamespaces(task[t]) = {<<"user", 1>>}

\* the non-group conversations that have both users as members
SharedDms(a, b) ==
    {c \in DOMAIN conversations :
        /\ ~conversations[c].is_group
        /\ <<c, a>> \in conversation_members
        /\ <<c, b>> \in conversation_members}

\* a direct call of sendMessage with a recipientId only that has returned
ReturnedDirect(s) ==
    /\ s.pc = "sm_done"
    /\ s.sm.caller = "direct"
    /\ s.sm.conversationId = NoId

\* C12 as claimed: whatever the interleaving of the calls between the two users,
\* at most one non-group conversation has both as members, and every call that
\* returns, returns the id of that conversation.
C12_Original ==
    /\ Cardinality(SharedDms(1, 3)) <= 1
    /\ \A t \in Tasks :
        ReturnedDirect(task[t])
            => SharedDms(1, 3) = {task[t].userMessageResult.conversationId}

\* C12, what the code keeps: every call that returns, returns a non-group
\* conversation that has both users as members and holds the message it wrote.
C12_ReturnsSharedConversation ==
    \A t \in Tasks :
        ReturnedDirect(task[t])
            => /\ task[t].userMessageResult.conversationId \in SharedDms(1, 3)
               /\ RowOf(task[t].userMessageResult.data.id).conversation_id
                    = task[t].userMessageResult.conversationId

\* two calls have returned, each with a conversation of its own
C12_Witness ==
    /\ Cardinality(SharedDms(1, 3)) >= 2
    /\ \E t1, t2 \in Tasks :
        /\ ReturnedDirect(task[t1]) /\ ReturnedDirect(task[t2])
        /\ task[t1].userMessageResult.conversationId # task[t2].userMessageResult.conversationId

\* C13: in a voice turn whose speech synthesis fails, the failure does not end the
\* turn: the reply is sent to the message store as text, without a file; the turn
\* can then fail only in that write, and when the write succeeds the reply's row
\* holds the text and no file, and the turn returns success with the reply text
\* and no audio reference.
C13_SpeechFailureNonFatal ==
    \A t \in Tasks :
        LET s == task[t]
        IN  s.isVoiceMessage /\ s.speech = "failed"
            => /\ s.pc \in {"sm_members", "sm_isGroup", "sm_insertMessage", "pm_done", "pm_failed"}
               /\ s.sm.caller = "agent" /\ ~s.sm.file /\ s.sm.content = s.aiResponse.content
               /\ s.pc = "pm_failed" => s.failedAt = "saveAgent"
               /\ s.pc = "pm_done"
                    => /\ s.result.success
                       /\ s.result.aiResponse = s.aiResponse.content
                       /\ s.result.audioResponseUrl = NoId
                       /\ Persisted(s.aiMessage.data.id)
                       /\ RowOf(s.aiMessage.data.id).content = s.aiResponse.content
                       /\ RowOf(s.aiMessage.data.id).sender_id = AI_AGENT_USER_ID
                       /\ RowOf(s.aiMessage.data.id).file_url = NoId

C13_Witness ==
    \E t \in Tasks :
        /\ task[t].isVoiceMessage /\ task[t].speech = "failed"
        /\ task[t].pc = "pm_done"
        /\ task[t].result.success
        /\ task[t].result.audioResponseUrl = NoId
        /\ RowOf(task[t].aiMessage.data.id).content = task[t].aiResponse.content

\* an exception was raised in one of the first three steps of the turn: while the
\* history was loaded, in the model call of the orchestrator, or in the write of
\* the user's message
RaisedInSteps123(s) ==
    \/ s.historyError
    \/ s.graphError # "none"
    \/ s.pc = "pm_failed" /\ s.failedAt = "saveUser"

\* C14 as claimed: an exception raised while the history is loaded, while the
\* orchestrator runs or while the user's message is written makes processMessage
\* fail, with the one generic failure.
C14_Original ==
    \A t \in Tasks :
        RaisedInSteps123(task[t])
            => task[t].pc = "pm_failed" /\ task[t].error = GenericFailure

\* C14, what the code keeps: an exception of the write of the user's message makes
\* processMessage fail, and every failure of processMessage carries the same
\* generic message, whatever its cause; an exception while the history is loaded
\* or in the model call never makes processMessage fail.
C14_GenericFailure ==
    \A t \in Tasks :
        LET s == task[t]
        IN  /\ s.pc = "pm_failed"
                => /\ s.error = GenericFailure
                   /\ s.failedAt \in {"validation", "saveUser", "saveAgent"}
            /\ s.sm.caller = "user" /\ s.pc \notin {"sm_members", "sm_isGroup", "sm_userCheck",
                    "sm_findDm", "sm_insertConversation", "sm_insertMembers", "sm_upload",
                    "sm_insertMessage"} /\ ~UserSaved(s)
                => s.pc = "pm_failed" /\ s.failedAt = "saveUser"

\* a turn whose history could not be loaded has returned success
C14_Witness ==
    \E t \in Tasks :
        /\ task[t].historyError
        /\ task[t].pc = "pm_done"
        /\ task[t].result.success

\* runAgent was called with the history of the turn
HandedOver(s) == Len(s.messages) > 0

\* the history the turn loaded: the entries of the stored messages of its
\* conversation, or nothing where it has no conversationId or the load failed
LoadedHistory(s) ==
    IF s.historyLoaded
    THEN HistoryOf(SelectSeq(StoredMessages, LAMBDA r : r.conversation_id = s.conversationId))
    ELSE <<>>

\* the entries of the history that are the user's current turn
CurrentTurnEntries(s) ==
    {k \in 1..Len(s.messageHistory) :
        s.messageHistory[k] = [role |-> "user", content |-> s.message]}

StoredRowsOf(s) ==
    {StoredMessages[k] : k \in {i \in 1..Len(StoredMessages) :
                                    StoredMessages[i].conversation_id = s.conversationId}}

\* the number of messages of the conversation created before the row
OlderThan(s, r) == Cardinality({o \in StoredRowsOf(s) : o.id < r.id})

\* C16: a history that was loaded has one entry per persisted message of the
\* conversation, in the order the messages were created, oldest first; each entry
\* has the text of its message, the role assistant where the sender of the
\* message is the agent and the role user for every other sender.
C16_HistoryFromMessages ==
    \A t \in Tasks :
        LET s == task[t]
            h == SubSeq(s.messageHistory, 1, Len(s.messageHistory) - 1)
        IN  s.historyLoaded /\ HandedOver(s)
            => /\ Len(h) = Cardinality(StoredRowsOf(s))
               /\ \A r \in StoredRowsOf(s) :
                    /\ h[OlderThan(s, r) + 1].content = r.content
                    /\ h[OlderThan(s, r) + 1].role = "assistant" <=> r.sender_id = AI_AGENT_USER_ID
                    /\ h[OlderThan(s, r) + 1].role = "user" <=> r.sender_id # AI_AGENT_USER_ID

\* the history of the stored DM where the agent is user 2: its first message is
\* the agent's, its second the other user's
C16_Witness ==
    \E t \in Tasks :
        /\ task[t].historyLoaded /\ HandedOver(task[t])
        /\ AI_AGENT_USER_ID = 2
        /\ task[t].conversationId = 1
        /\ task[t].messageHistory[1] = [role |-> "assistant", content |-> "hi"]
        /\ task[t].messageHistory[2] = [role |-> "user", content |-> "hello"]

\* the ids of the tool calls the model requested in the run
RequestedIds(s) == {c.id : c \in RequestedIn(s)}

\* the ids of the tool calls that were executed
ExecutedIds(s) == {e.id : e \in BagToSet(s.toolLog)}

\* the ids of the tool calls requested by the last message of the run
LastRequestedIds(s) ==
    {Last(s.messages).tool_calls[i].id : i \in 1..Len(Last(s.messages).tool_calls)}

\* the AI messages the run added
AddedAI(s) == {k \in Added(s) : s.messages[k].type = "ai"}

NewRows == {messages[k] : k \in (Len(StoredMessages) + 1)..Len(messages)}

\* C18: a turn that succeeds has written two messages and no more: the user's
\* text with the user as sender, and the content of the final answer with the
\* agent as sender; the final answer is the last message of the run (or the
\* fallback answer), never a message that requests tools and never a tool result.
C18_ExactlyTwoMessages ==
    \A t \in Tasks :
        LET s == task[t]
        IN  s.pc = "pm_done"
            => /\ Len(messages) = Len(StoredMessages) + 2
               /\ SubSeq(messages, 1, Len(StoredMessages)) = StoredMessages
               /\ Cardinality(NewRows) = 2
               /\ NewRows = {RowOf(s.userMessageResult.data.id), RowOf(s.aiMessage.data.id)}
               /\ RowOf(s.userMessageResult.data.id).sender_id = s.userId
               /\ RowOf(s.userMessageResult.data.id).content = s.message
               /\ RowOf(s.aiMessage.data.id).sender_id = AI_AGENT_USER_ID
               /\ RowOf(s.aiMessage.data.id).content = s.aiResponse.content
               /\ s.graphError = "none"
                    => /\ s.aiResponse.content = Last(s.messages).content
                       /\ Last(s.messages).type = "ai"
                       /\ Len(Last(s.messages).tool_calls) = 0
               /\ s.graphError = "GraphRecursionError" => s.aiResponse = RecursionFallback
               /\ s.graphError = "ModelError" => s.aiResponse = ErrorFallback

\* a successful voice turn in which the model first requested tools, and whose
\* run therefore added a tool request and tool results to the history
C18_Witness ==
    \E t \in Tasks :
        /\ task[t].pc = "pm_done"
        /\ task[t].toolTurns >= 1
        /\ task[t].isVoiceMessage
        /\ task[t].graphError = "none"
        /\ Len(task[t].messages) >= Len(task[t].messageHistory) + 3
        /\ Len(messages) = Len(StoredMessages) + 2

\* the message ids the answer of a turn carries
ResponseMessageIds(r) == {r.messageId}

\* C19 as claimed: the result of a successful turn carries the id of the persisted
\* user message and the id of the persisted agent message, with the conversation
\* id and the reply text.
C19_Original ==
    \A t \in Tasks :
        LET s == task[t]
        IN  s.pc = "pm_done"
            => /\ s.userMessageResult.data.id \in ResponseMessageIds(s.chatResponse)
               /\ s.aiMessage.data.id \in ResponseMessageIds(s.chatResponse)
               /\ s.chatResponse.conversationId = s.resolvedConversationId
               /\ s.chatResponse.aiResponse = s.aiResponse.content

\* C19, what the code keeps: the result of a successful turn carries one message
\* id, that of the agent's persisted message, with the conversation id, the reply
\* text, the transcription of a voice turn and the audio reference; the id of the
\* user's message is not in it.
C19_AgentMessageIdOnly ==
    \A t \in Tasks :
        LET s == task[t]
        IN  s.pc = "pm_done"
            => /\ s.chatResponse.success
               /\ ResponseMessageIds(s.chatResponse) = {s.aiMessage.data.id}
               /\ s.userMessageResult.data.id \notin ResponseMessageIds(s.chatResponse)
               /\ Persisted(s.aiMessage.data.id) /\ Persisted(s.userMessageResult.data.id)
               /\ s.chatResponse.conversationId = s.resolvedConversationId
               /\ s.chatResponse.aiResponse = s.aiResponse.content
               /\ s.chatResponse.transcription = s.transcription
               /\ s.chatResponse.audioResponseUrl = s.audioResponseUrl
               /\ s.chatResponse = ChatResponse(s.result, s.transcription)

C19_Witness ==
    \E t \in Tasks :
        /\ task[t].pc = "pm_done"
        /\ task[t].chatResponse.success
        /\ task[t].chatResponse.messageId = task[t].aiMessage.data.id
        /\ task[t].chatResponse.messageId # task[t].userMessageResult.data.id
        /\ task[t].chatResponse.transcription = TranscribedText

\* the file of the turn has a type the controller does not take
UnsupportedFile(s) == s.mimetype # "none" /\ s.mimetype \notin allowedAudioTypes

\* C20: a turn with a file whose MIME type is none of audio/mpeg, audio/wav,
\* audio/mp4, audio/ogg and audio/flac is rejected: the controller answers with
\* success false, the file is not transcribed, processMessage and runAgent are
\* not called and nothing is written.
C20_UnsupportedFileRejected ==
    \A t \in Tasks :
        LET s == task[t]
        IN  UnsupportedFile(s) /\ s.pc # "chat_start"
            => /\ s.pc = "chat_rejected"
               /\ ~s.chatResponse.success
               /\ ~s.transcribed
               /\ ~Started(s)
               /\ NoAgentWork(s)
               /\ NoWrites(s)

C20_Witness ==
    \E t \in Tasks :
        /\ task[t].mimetype = "video/mp4"
        /\ task[t].pc = "chat_rejected"
        /\ task[t].chatResponse.error = "Invalid file type. Only audio files are supported for transcription."

\* C21: in a voice turn the text that processMessage receives, that ends the
\* history handed to runAgent and that is written as the user's message is the
\* transcription of the audio; the message field sent with the audio is not used.
C21_VoiceTextIsTranscription ==
    \A t \in Tasks :
        LET s == task[t]
        IN  s.isVoiceMessage
            => /\ s.transcribed
               /\ s.transcription = TranscribedText
               /\ s.message = s.transcription
               /\ HandedOver(s)
                    => /\ Last(s.messageHistory) = [role |-> "user", content |-> s.transcription]
                       /\ \A k \in 1..Len(s.messages) : s.messages[k].content # s.dtoMessage
                                                         \/ s.dtoMessage = ""
               /\ UserSaved(s)
                    => /\ RowOf(s.userMessageResult.data.id).content = s.transcription
                       /\ RowOf(s.userMessageResult.data.id).file_url # NoId

\* a voice turn that came with a message field, and whose user message is written
C21_Witness ==
    \E t \in Tasks :
        /\ task[t].isVoiceMessage
        /\ task[t].dtoMessage = UserText
        /\ UserSaved(task[t])
        /\ RowOf(task[t].userMessageResult.data.id).content = TranscribedText
        /\ task[t].modelCalls > 0

\* a turn without a file whose text is empty or only whitespace, taken up by the
\* controller
BlankTextTurn(s) ==
    /\ s.mimetype = "none"
    /\ s.dtoMessage = "" \/ Trim(s.dtoMessage) = ""
    /\ s.pc \notin {"off", "chat_start", "chat_text_start"}

\* C22 as claimed: a turn without a file whose text is empty or only whitespace is
\* rejected by the controller; the orchestrator is not invoked and no message is
\* written.
C22_Original ==
    \A t \in Tasks :
        BlankTextTurn(task[t])
            => /\ task[t].pc = "chat_rejected"
               /\ NoAgentWork(task[t])
               /\ NoWrites(task[t])

\* C22, what the code keeps: such a turn never writes a message; the controller
\* that takes files rejects it before processMessage, but the text-only
\* controller hands it to processMessage, which runs the orchestrator on it and
\* fails only in the write of the user's message.
C22_BlankTextNeverPersisted ==
    \A t \in Tasks :
        LET s == task[t]
        IN  BlankTextTurn(s)
            => /\ NoWrites(s)
               /\ s.pc # "pm_done"
               /\ s.chatResponse = NoChatResponse \/ s.pc = "chat_rejected"
               /\ s.pc = "chat_rejected" => NoAgentWork(s)
               /\ s.pc = "pm_failed" => s.failedAt \in {"validation", "saveUser"}

\* a whitespace-only text on which the model was called
C22_Witness ==
    \E t \in Tasks :
        /\ BlankTextTurn(task[t])
        /\ task[t].dtoMessage = " "
        /\ task[t].modelCalls > 0
        /\ task[t].pc = "pm_failed"
        /\ task[t].failedAt = "saveUser"

\* the direct calls of the tool
CallsOf(s, tool) == {s.calls[k] : k \in {i \in 1..Len(s.calls) : s.calls[i].tool = tool}}

\* C23: where the email transport is not configured the sendEmail tool makes no
\* sendMail call and returns the text that says the service is not configured,
\* not the failure text and not 'Email sent.'; it returns 'Email sent.' only
\* where sendMail was called once and the transport accepted the message; no
\* exception leaves the tool.
C23_EmailNotConfigured ==
    \A t \in Tasks : \A c \in CallsOf(task[t], "sendEmail") :
        /\ ~c.threw
        /\ c.env = "unconfigured" => c.sends = 0 /\ c.text = EmailNotConfiguredText
        /\ c.text = EmailSentText <=> c.env = "accepts"
        /\ c.text = EmailSentText => c.sends = 1
        /\ c.env = "rejects" => c.text = EmailIssueText
        /\ Cardinality({EmailNotConfiguredText, EmailSentText, EmailIssueText}) = 3

C23_Witness ==
    \E t \in Tasks :
        /\ \E c \in CallsOf(task[t], "sendEmail") :
                c.env = "unconfigured" /\ c.text = EmailNotConfiguredText /\ c.sends = 0
        /\ \E c \in CallsOf(task[t], "sendEmail") : c.env = "accepts" /\ c.text = EmailSentText

\* C24 as claimed: the getEventsInRange tool returns the enumeration of the events
\* where the provider returns some, 'No events found' where it returns none, and
\* 'No events found', not the failure text, where the provider rejects the
\* credentials.
C24_Original ==
    \A t \in Tasks : \A c \in CallsOf(task[t], "getEventsInRange") :
        /\ c.env = "events" => c.text = FoundEventsText
        /\ c.env = "empty" => c.text = NoEventsText
        /\ AuthFailure(c.env) => c.text = NoEventsText

\* C24, what the code keeps: the enumeration where there are events, 'No events
\* found' where there are none, and 'No events found' for an authentication
\* failure whose message contains 'client_email' or 'credentials'; every other
\* failure, an authentication failure with another message among them, gives the
\* failure text.
C24_AuthByMessageText ==
    \A t \in Tasks : \A c \in CallsOf(task[t], "getEventsInRange") :
        /\ ~c.threw
        /\ c.env = "events" => c.text = FoundEventsText
        /\ c.env = "empty" => c.text = NoEventsText
        /\ (c.env \notin {"events", "empty"}
                /\ (Includes(CalendarListError(c.env), "client_email")
                    \/ Includes(CalendarListError(c.env), "credentials")))
            => c.text = NoEventsText
        /\ (c.env \notin {"events", "empty"}
                /\ ~Includes(CalendarListError(c.env), "client_email")
                /\ ~Includes(CalendarListError(c.env), "credentials"))
            => c.text = FetchFailedText

\* an authentication failure that gave the failure text, and one that gave the
\* empty result
C24_Witness ==
    \E t \in Tasks :
        /\ \E c \in CallsOf(task[t], "getEventsInRange") :
                AuthFailure(c.env) /\ c.text = FetchFailedText
        /\ \E c \in CallsOf(task[t], "getEventsInRange") :
                AuthFailure(c.env) /\ c.text = NoEventsText

\* the timestamp is ISO-8601 with an explicit UTC offset, not 'Z'
HasExplicitOffset(ts) == ts.zone \notin {"", "Z"}

\* C29 as claimed: the addCalendarEvent tool sends the provider only start and end
\* timestamps that carry an explicit UTC offset; one with a 'Z' suffix or without
\* an offset is not sent on.
C29_Original ==
    \A t \in Tasks : \A c \in CallsOf(task[t], "addCalendarEvent") :
        c.inserted
            => /\ HasExplicitOffset(c.resource.start.dateTime)
               /\ HasExplicitOffset(c.resource.end.dateTime)

\* C29, what the code does: the tool sends every pair of strings on to
\* calendar.events.insert as it got them, with the time zone Asia/Karachi.
C29_ForwardsAsGiven ==
    \A t \in Tasks : \A c \in CallsOf(task[t], "addCalendarEvent") :
        /\ c.inserted
        /\ c.resource.start.dateTime \in Timestamps
        /\ c.resource.end.dateTime \in Timestamps
        /\ c.resource.start.timeZone = "Asia/Karachi"
        /\ c.resource.end.timeZone = "Asia/Karachi"
        /\ ~c.threw

\* an event sent to the provider with a 'Z' start and an end without offset, and
\* reported as created
C29_Witness ==
    \E t \in Tasks : \E c \in CallsOf(task[t], "addCalendarEvent") :
        /\ c.inserted
        /\ c.resource.start.dateTime.zone = "Z"
        /\ c.resource.end.dateTime.zone = ""
        /\ c.text = EventCreatedText

\* the query is missing, empty or only whitespace
BlankQuery(query) == ~query.defined \/ \A k \in 1..Len(query.text) : query.text[k].ws

\* the file names among the sources of an answer
SourceFiles(s) == {src.fileName : src \in s.result.sources}

\* C25: when the search of the namespace returns no match, generateRAGResponse
\* returns success with the fixed 'couldn't find any relevant information' answer
\* and no source, and has not called the chat model.
C25_ZeroMatchesNotAnError ==
    \A t \in Tasks :
        LET s == task[t].rag
        IN  (s.op = "answer" /\ s.indexQueries = 1 /\ s.pc # "rag_failed" /\ s.matches = {})
                => /\ s.pc = "answer_done"
                   /\ s.result.success
                   /\ s.result.answer = RagNotFoundText
                   /\ s.result.sources = {}
                   /\ s.result.total = 0
                   /\ s.chatCalls = 0

C25_Witness ==
    \E t \in Tasks :
        /\ task[t].rag.op = "answer"
        /\ task[t].rag.pc = "answer_done"
        /\ task[t].rag.indexQueries = 1
        /\ task[t].rag.candidates = {}
        /\ task[t].rag.result.answer = RagNotFoundText

\* C26: generateRAGResponse and queryDocuments reject a query that is missing,
\* empty or only whitespace with 'Query cannot be empty', and have then made no
\* embeddings call, no index query and no chat call.
C26_EmptyQueryRejected ==
    \A t \in Tasks :
        LET s == task[t].rag
        IN  (s.op \in {"answer", "search"} /\ BlankQuery(s.query))
                => /\ s.pc \in {"answer_start", "search_start", "rag_failed"}
                   /\ s.pc = "rag_failed" => s.error = EmptyQueryError
                   /\ s.embedCalls = 0
                   /\ s.indexQueries = 0
                   /\ s.chatCalls = 0

C26_Witness ==
    \E t \in Tasks :
        /\ task[t].rag.op = "answer"
        /\ task[t].rag.query.defined
        /\ task[t].rag.query.text # <<>>
        /\ BlankQuery(task[t].rag.query)
        /\ task[t].rag.pc = "rag_failed"
        /\ task[t].rag.error = EmptyQueryError

\* C27: processAndUpsert calls upsert at most once; it has written to the index
\* only when the file was there, its type was accepted, its text was extracted
\* and every chunk was embedded; a call that failed has written nothing, and the
\* index holds nothing but what was stored and what the calls that returned wrote.
C27_NoPartialIndexWrites ==
    /\ \A ns \in Namespaces :
            pinecone.namespaces[ns] \subseteq
                (StoredVectors \cup UNION {task[t].rag.written : t \in Tasks})
    /\ \A t \in Tasks :
        LET s == task[t].rag
        IN  s.op = "ingest"
                => /\ s.upserts <= 1
                   /\ s.upserts = 1 => s.pc \in {"ingest_done", "rag_failed"}
                   /\ s.pc = "rag_failed" => s.written = {}
                   /\ s.written # {}
                        => /\ s.pc = "ingest_done"
                           /\ s.upserts = 1
                           /\ s.file.present
                           /\ Extension(s.file.originalname) = "docx"
                           /\ s.file.buffer.valid
                           /\ s.embedCalls = Len(s.chunks)
                           /\ s.written = Range(s.vectors)
                           /\ Len(s.vectors) = Len(s.chunks)

\* an upload that failed at its second embedding, and wrote nothing
C27_Witness ==
    \E t \in Tasks :
        /\ task[t].rag.op = "ingest"
        /\ task[t].rag.pc = "rag_failed"
        /\ task[t].rag.error = EmbeddingsError
        /\ Len(task[t].rag.vectors) = 1
        /\ task[t].rag.embedCalls = 2
        /\ task[t].rag.written = {}
        /\ pinecone.namespaces[<<"user", task[t].rag.userId>>] \subseteq StoredVectors

\* an upload of a user returned before an answer call of the same user began,
\* and the answer call returned
RoundTrip(i, a) ==
    /\ task[i].rag.op = "ingest"
    /\ task[a].rag.op = "answer"
    /\ task[i].rag.userId = task[a].rag.userId
    /\ i \in task[a].rag.after
    /\ task[a].rag.pc = "answer_done"

\* the vectors of other files that are as near to the query of the call as v
AsNear(s, v) ==
    {x \in s.candidates :
        /\ x.fileName # v.fileName
        /\ Score(Embedding(s.query.text), x.values) >= Score(Embedding(s.query.text), v.values)}

\* C28 as claimed: the upload of user U writes to the namespace that the later
\* answer call of U reads, and when the embedding of the query equals that of a
\* chunk of the uploaded file, the name of the file is among the sources.
C28_Original ==
    \A i, a \in Tasks :
        RoundTrip(i, a)
            => /\ task[i].rag.result.namespace = RagNamespace(task[a].rag.namespace, task[a].rag.userId)
               /\ \A v \in task[i].rag.written :
                    v.values = Embedding(task[a].rag.query.text)
                        => task[i].rag.file.originalname \in SourceFiles(task[a].rag)

\* C28, amended: the upload of user U writes to the namespace user-U that the
\* later answer call of U reads, and when the embedding of the query equals that
\* of a chunk of the uploaded file that is still stored, and fewer than topK
\* vectors of other files in the namespace are as near to the query, the name of
\* the file is among the sources.
C28_RoundTripUnlessCrowdedOut ==
    \A i, a \in Tasks :
        RoundTrip(i, a)
            => /\ task[i].rag.result.namespace = <<"user", task[i].rag.userId>>
               /\ task[i].rag.result.namespace = RagNamespace(task[a].rag.namespace, task[a].rag.userId)
               /\ \A v \in task[i].rag.written :
                    (/\ v.values = Embedding(task[a].rag.query.text)
                     /\ v \in task[a].rag.candidates
                     /\ Cardinality(AsNear(task[a].rag, v)) < TopKDefault)
                        => task[i].rag.file.originalname \in SourceFiles(task[a].rag)

\* a round trip through a namespace that holds more than topK vectors
C28_Witness ==
    \E i, a \in Tasks :
        /\ RoundTrip(i, a)
        /\ Cardinality(task[a].rag.candidates) > TopKDefault
        /\ \E v \in task[i].rag.written :
            /\ v.values = Embedding(task[a].rag.query.text)
            /\ v \in task[a].rag.candidates
            /\ Cardinality(AsNear(task[a].rag, v)) < TopKDefault
        /\ task[i].rag.file.originalname \in SourceFiles(task[a].rag)

\* the text is empty or only whitespace
BlankText(text) == \A k \in 1..Len(text) : text[k].ws

\* C30: chunkText with window 1200 and overlap 200 returns for every text: at
\* the head of every turn of its loop the start i is inside the text and is the
\* number of turns made times the step 1000, well within the bound on the turns,
\* and a turn that does not return moves i forward, so that no more turns are
\* made than the text has steps; and for a text that is empty or only whitespace
\* it returns no chunk.
C30_ChunkTextTerminates ==
    /\ [](\A t \in Tasks :
            /\ task[t].rag.pc = "chunk_loop"
                => /\ task[t].rag.i < TextLength(task[t].rag.clean)
                   /\ task[t].rag.i = task[t].rag.iterations * (ChunkSize - ChunkOverlap)
                   /\ task[t].rag.iterations < MaxIterations
            /\ (task[t].rag.pc = "chunk_done" /\ BlankText(task[t].rag.text))
                => task[t].rag.out = <<>> /\ task[t].rag.iterations = 0)
    /\ [][\A t \in Tasks :
            task[t].rag.pc = "chunk_loop"
                => /\ task'[t].rag.pc \in {"chunk_loop", "chunk_done"}
                   /\ task'[t].rag.pc = "chunk_loop" => task'[t].rag.i > task[t].rag.i]_vars

\* chunkText returned after three turns of its loop
C30_Witness ==
    \E t \in Tasks :
        /\ task[t].rag.pc = "chunk_done"
        /\ task[t].rag.iterations >= 3
        /\ Len(task[t].rag.out) = task[t].rag.iterations

\* chunkText returned for a text that is not empty after cleaning
ChunkedNonEmpty(s) == s.pc = "chunk_done" /\ s.clean # <<>>

\* C31: for every text that is not empty after cleaning, the chunks of chunkText
\* cover it in order: chunk k is the slice from its start to its end, the first
\* starts at 0, the last ends at the end of the text, every chunk but the last is
\* 1200 long, the last is at most 1200 long, and each chunk starts 200 before
\* the end of the one before it.
C31_ChunksCoverText ==
    \A t \in Tasks :
        LET s == task[t].rag
            n == Len(s.spans)
        IN  ChunkedNonEmpty(s)
                => /\ n >= 1
                   /\ Len(s.out) = n
                   /\ s.spans[1][1] = 0
                   /\ s.spans[n][2] = TextLength(s.clean)
                   /\ \A k \in 1..n :
                        /\ s.out[k] = Slice(s.clean, s.spans[k][1], s.spans[k][2])
                        /\ TextLength(s.out[k]) = s.spans[k][2] - s.spans[k][1]
                        /\ TextLength(s.out[k]) >= 1
                        /\ TextLength(s.out[k]) <= ChunkSize
                        /\ k < n => TextLength(s.out[k]) = ChunkSize
                        /\ k > 1 => s.spans[k][1] = s.spans[k - 1][2] - ChunkOverlap

\* chunkText returned three chunks, the last shorter than the window
C31_Witness ==
    \E t \in Tasks :
        /\ ChunkedNonEmpty(task[t].rag)
        /\ Len(task[t].rag.out) = 3
        /\ TextLength(task[t].rag.out[3]) < ChunkSize
        /\ task[t].rag.spans[3][2] = TextLength(task[t].rag.clean)

\* the ids of the vectors a call of processAndUpsert built
IdsOf(s) == {s.vectors[k].id : k \in 1..Len(s.vectors)}

\* two calls of processAndUpsert of one owner
SameOwnerIngests(i, j) ==
    /\ i # j
    /\ task[i].rag.op = "ingest"
    /\ task[j].rag.op = "ingest"
    /\ task[i].rag.userId = task[j].rag.userId

\* C39 as claimed: the ids written by two ingestions of one owner are distinct,
\* and what an ingestion that returned wrote is still in the namespace of its
\* owner, whatever ran beside it.
C39_Original ==
    /\ \A i, j \in Tasks : SameOwnerIngests(i, j) => IdsOf(task[i].rag) \cap IdsOf(task[j].rag) = {}
    /\ \A i \in Tasks :
            task[i].rag.op = "ingest"
                => task[i].rag.written \subseteq pinecone.namespaces[<<"user", task[i].rag.userId>>]

\* C39, what the code keeps: an id is the owner, the millisecond of Date.now()
\* and the number of the chunk; the ids of one ingestion are distinct, and two
\* ingestions of one owner share an id exactly where they built the chunk of one
\* number in one millisecond.
C39_DistinctUnlessSameMillisecond ==
    /\ \A i \in Tasks :
            task[i].rag.op = "ingest"
                => /\ Cardinality(IdsOf(task[i].rag)) = Len(task[i].rag.vectors)
                   /\ \A k \in 1..Len(task[i].rag.vectors) :
                        /\ task[i].rag.vectors[k].id[1] = task[i].rag.userId
                        /\ task[i].rag.vectors[k].id[2] <= now
                        /\ task[i].rag.vectors[k].id[3] = k - 1
    /\ \A i, j \in Tasks :
            SameOwnerIngests(i, j)
                => \A k \in 1..Len(task[i].rag.vectors), l \in 1..Len(task[j].rag.vectors) :
                        (task[i].rag.vectors[k].id = task[j].rag.vectors[l].id)
                            <=> (k = l /\ task[i].rag.vectors[k].id[2] = task[j].rag.vectors[l].id[2])

\* two ingestions of one owner returned, and a chunk of one is no longer stored
C39_Witness ==
    \E i, j \in Tasks :
        /\ SameOwnerIngests(i, j)
        /\ task[i].rag.pc = "ingest_done"
        /\ task[j].rag.pc = "ingest_done"
        /\ task[i].rag.file.originalname # task[j].rag.file.originalname
        /\ \E v \in task[i].rag.written :
                v \notin pinecone.namespaces[<<"user", task[i].rag.userId>>]

\* the request names no tool of the switch
UnknownTool(body) ==
    body.name \notin {"SEND_EMAIL", "GET_EVENTS", "SCHEDULE_EVENT", "QUERY_DOCUMENTS"}

\* a required argument of the named tool is undefined or empty
MissingArgument(body) ==
    \/ body.name = "SEND_EMAIL"
        /\ \E v \in {body.args.to, body.args.subject, body.args.body} : v \in {"undefined", ""}
    \/ body.name = "SCHEDULE_EVENT"
        /\ \E v \in {body.args.title, body.args.startTime, body.args.endTime} : v \in {"undefined", ""}
    \/ body.name = "QUERY_DOCUMENTS"
        /\ (body.args.query \in {"undefined", ""} \/ body.userId = NoId)

\* C40: when the name is unknown or a required argument is missing (to, subject,
\* body for SEND_EMAIL; title, startTime, endTime for SCHEDULE_EVENT; query and
\* userId for QUERY_DOCUMENTS), toolRun calls no service and reports a failure:
\* success false in the body for an unknown name, status 400 otherwise.
C40_NoServiceOnBadRequest ==
    \A t \in Tasks : \A k \in 1..Len(task[t].runs) :
        LET r == task[t].runs[k]
        IN  (UnknownTool(r.body) \/ MissingArgument(r.body))
                => /\ r.response.called = "none"
                   /\ ~r.response.success
                   /\ r.response.error # "none"
                   /\ UnknownTool(r.body) => r.response.error = "Unknown tool"
                   /\ ~UnknownTool(r.body) => r.response.status = 400

\* a document query without userId was refused, and one with it was answered
C40_Witness ==
    \E t \in Tasks :
        /\ \E k \in 1..Len(task[t].runs) :
            /\ task[t].runs[k].body.name = "QUERY_DOCUMENTS"
            /\ task[t].runs[k].body.args.query = "value"
            /\ task[t].runs[k].body.userId = NoId
            /\ task[t].runs[k].response.status = 400
            /\ task[t].runs[k].response.called = "none"
        /\ \E k \in 1..Len(task[t].runs) :
            /\ task[t].runs[k].body.name = "QUERY_DOCUMENTS"
            /\ task[t].runs[k].response.success
            /\ task[t].runs[k].response.called = "queryDocuments"

\* C34 as stated: when AI_AGENT_ID is unset or is not an integer, the identity
\* the service uses for the recipient check, the history read and the reply
\* is the default 1
C34_Original ==
    process_env.AI_AGENT_ID \in InvalidAgentIdEnv => AI_AGENT_USER_ID = 1

\* C34: the identity is what parseInt makes of the value: 1 for the unset and
\* the empty value, the leading digits of "2abc", and NaN for "abc"; under NaN
\* every turn that names a recipient is rejected, no history is read and no
\* reply is stored
C34_IdentityIsParsedValue ==
    /\ process_env.AI_AGENT_ID \in {"unset", ""} => AI_AGENT_USER_ID = 1
    /\ process_env.AI_AGENT_ID = "2abc" => AI_AGENT_USER_ID = 2
    /\ process_env.AI_AGENT_ID = "abc" =>
           /\ AI_AGENT_USER_ID = NaN
           /\ \A t \in Tasks :
               LET s == task[t]
               IN  /\ ~ReplySaved(s)
                   /\ ~s.historyLoaded
                   /\ s.pc # "pm_done"
                   /\ (Started(s) /\ s.recipientId # NoId)
                          => s.pc = "pm_failed" /\ s.failedAt = "validation"
                   /\ \A row \in NewRows : row.sender_id = s.userId \/ s.userId = NoId

\* under AI_AGENT_ID = "abc" a turn in the DM with user 1 stored the user's
\* message and failed at the reply
C34_Witness ==
    /\ process_env.AI_AGENT_ID = "abc"
    /\ task[1].pc = "pm_failed"
    /\ task[1].failedAt = "saveAgent"
    /\ task[1].conversationId = 1
    /\ UserSaved(task[1])
    /\ NewRows # {}

\* a turn that names a conversation of which the user or the agent is not a
\* member, or which is a group
ForeignConversationTurn(s) ==
    /\ Started(s)
    /\ s.conversationId # NoId
    /\ \/ <<s.conversationId, s.userId>> \notin StoredMembers
       \/ <<s.conversationId, AI_AGENT_USER_ID>> \notin StoredMembers
       \/ s.conversationId \in DOMAIN StoredConversations
             /\ StoredConversations[s.conversationId].is_group

\* the chat model or a tool ran on the stored messages of the conversation
RanOnHistory(s) ==
    s.historyLoaded /\ (s.modelCalls > 0 \/ s.toolLog # EmptyBag)

\* C32 as stated: such a turn fails, stores no message, and neither the chat
\* model nor a tool runs on the history of that conversation
C32_Original ==
    \A t \in Tasks :
        ForeignConversationTurn(task[t])
            => /\ NewRows = {}
               /\ task[t].pc # "pm_done"
               /\ ~RanOnHistory(task[t])

\* C32: such a turn fails and stores no message; the history is read with the
\* identity of the agent before the membership of the user is looked at, so
\* the chat model and the tools run on it whenever the agent is a member, and
\* on the turn alone when the agent is not
C32_FailsAfterAgentRan ==
    \A t \in Tasks :
        ForeignConversationTurn(task[t])
            => /\ NewRows = {}
               /\ task[t].pc # "pm_done"
               /\ task[t].historyLoaded
                      => <<task[t].conversationId, AI_AGENT_USER_ID>> \in StoredMembers
               /\ task[t].pc = "pm_failed" => task[t].failedAt \in {"validation", "runAgent", "saveUser"}

\* user 3 named the DM of user 2 with the agent: the chat model ran on its
\* messages and the turn then failed at the user's message
C32_Witness ==
    /\ AI_AGENT_USER_ID = 1
    /\ task[1].userId = 3
    /\ task[1].conversationId = 1
    /\ task[1].pc = "pm_failed"
    /\ task[1].failedAt = "saveUser"
    /\ RanOnHistory(task[1])
    /\ Len(task[1].messageHistory) = 3

\* a voice turn that returned its result
VoiceTurnDone(s) == s.pc = "pm_done" /\ s.isVoiceMessage

\* the file URL on the stored message of the agent
StoredReplyUrl(s) == RowOf(s.aiMessage.data.id).file_url

\* C33 as stated: the audio reference returned by a voice turn is present
\* exactly when the stored message of the agent carries a file, and is then
\* the file URL of that message
C33_Original ==
    \A t \in Tasks :
        VoiceTurnDone(task[t])
            => /\ task[t].result.audioResponseUrl # NoId <=> StoredReplyUrl(task[t]) # NoId
               /\ task[t].result.audioResponseUrl # NoId
                      => task[t].result.audioResponseUrl = StoredReplyUrl(task[t])

\* C33: the audio is written twice, by processMessage and again by sendMessage,
\* each time under a new name: a returned reference is the earlier file and
\* the message holds the later one; the message carries a file whenever the
\* speech was made, also when the first write failed and nothing is returned
C33_ReturnedIsEarlierUpload ==
    \A t \in Tasks :
        VoiceTurnDone(task[t])
            => /\ task[t].result.audioResponseUrl # NoId <=> task[t].speech = "ok"
               /\ StoredReplyUrl(task[t]) # NoId <=> task[t].speech \in {"ok", "upload_failed"}
               /\ task[t].result.audioResponseUrl # NoId
                      => task[t].result.audioResponseUrl < StoredReplyUrl(task[t])

\* a voice turn returned an audio reference that is not the file URL of the
\* stored message of the agent
C33_Witness ==
    \E t \in Tasks :
        /\ VoiceTurnDone(task[t])
        /\ task[t].result.audioResponseUrl # NoId
        /\ StoredReplyUrl(task[t]) # NoId
        /\ StoredReplyUrl(task[t]) # task[t].result.audioResponseUrl

\* the messages that were stored, before the turn, in the conversation under
\* which the turn stored its two messages
StoredBefore(s) ==
    HistoryOf(SelectSeq(StoredMessages, LAMBDA r : r.conversation_id = s.resolvedConversationId))

\* a turn that stored both of its messages
BothStored(s) == s.pc = "pm_done" /\ UserSaved(s) /\ ReplySaved(s)

\* C38 as stated: the history handed to the orchestrator holds every message
\* already stored in the conversation the turn writes to, also when the turn
\* gives only a recipientId and the DM exists
C38_Original ==
    \A t \in Tasks :
        BothStored(task[t])
            => /\ Len(task[t].messageHistory) = Len(StoredBefore(task[t])) + 1
               /\ SubSeq(task[t].messageHistory, 1, Len(StoredBefore(task[t])))
                      = StoredBefore(task[t])

\* C38: the history is read only for a conversationId of the request; a turn
\* that gives only a recipientId hands over the user's turn alone, and
\* sendMessage then resolves the existing DM; a read that fails gives the
\* user's turn alone as well
C38_HistoryOnlyByConversationId ==
    \A t \in Tasks :
        BothStored(task[t])
            => /\ task[t].historyLoaded
                      => /\ task[t].conversationId = task[t].resolvedConversationId
                         /\ task[t].messageHistory
                                = StoredBefore(task[t]) \o <<[role |-> "user", content |-> task[t].message]>>
               /\ ~task[t].historyLoaded
                      => task[t].messageHistory = <<[role |-> "user", content |-> task[t].message]>>
               /\ task[t].conversationId = NoId => ~task[t].historyLoaded

\* user 2 gave only the recipientId of the agent: the orchestrator got the
\* turn alone and both messages went to the DM that holds two messages
C38_Witness ==
    /\ BothStored(task[1])
    /\ task[1].conversationId = NoId
    /\ task[1].recipientId = AI_AGENT_USER_ID
    /\ task[1].resolvedConversationId = 1
    /\ Len(StoredBefore(task[1])) = 2
    /\ Len(task[1].messageHistory) = 1
    /\ task[1].modelCalls > 0

\* the conversations made by the lazy creation of a DM
CreatedConversations == DOMAIN conversations \ DOMAIN StoredConversations

MembersOf(c) == {u \in Users : <<c, u>> \in conversation_members}

\* C37 as stated: in every state, also after a failure in the middle of
\* sendMessage, a conversation made by the lazy creation has exactly two
\* members, the sender and the recipient of the call that made it
C37_Original ==
    \A c \in CreatedConversations :
        \E t \in Tasks :
            /\ task[t].sm.resolvedConversationId = c
            /\ MembersOf(c) = {task[t].sm.senderId, task[t].sm.recipientId}
            /\ Cardinality(MembersOf(c)) = 2

\* C37: the conversation and its two members are inserted by two separate
\* queries without a transaction: the conversation has both members or none,
\* and it has none while the call is between the two queries and for good
\* when the second query failed
C37_TwoMembersOrNone ==
    \A c \in CreatedConversations :
        /\ ~conversations[c].is_group
        /\ \E t \in Tasks :
              /\ task[t].sm.resolvedConversationId = c
              /\ \/ MembersOf(c) = {task[t].sm.senderId, task[t].sm.recipientId}
                 \/ MembersOf(c) = {} /\ task[t].pc \in {"sm_insertMembers", "sm_failed"}

\* the insert of the members failed: a conversation without members stays
C37_Witness ==
    \E c \in CreatedConversations, t \in Tasks :
        /\ task[t].sm.resolvedConversationId = c
        /\ task[t].pc = "sm_failed"
        /\ task[t].error = "query failed"
        /\ MembersOf(c) = {}

\* the calls of sendMessage that returned
ReturnedCalls == {t \in Tasks : task[t].pc = "sm_done"}

\* C36: every stored message is in an existing conversation of which its
\* sender is a member, and only the calls that returned stored a message: one
\* each, so a call that failed stored none
C36_MessagesOfMembersOnly ==
    /\ \A k \in 1..Len(messages) :
          /\ messages[k].conversation_id \in DOMAIN conversations
          /\ <<messages[k].conversation_id, messages[k].sender_id>> \in conversation_members
    /\ Cardinality(NewRows) = Cardinality(ReturnedCalls)
    /\ \A t \in ReturnedCalls :
          /\ task[t].userMessageResult.data.id \in {row.id : row \in NewRows}
          /\ RowOf(task[t].userMessageResult.data.id).sender_id = task[t].userId
    /\ \A t \in Tasks : task[t].pc = "sm_failed" => task[t].userMessageResult = NoResult

\* user 3, not a member of conversation 1, was refused and stored nothing,
\* while the call of user 2 with a file stored its message there
C36_Witness ==
    \E t1, t2 \in Tasks :
        /\ task[t1].pc = "sm_failed"
        /\ task[t1].userId = 3
        /\ task[t1].conversationId = 1
        /\ task[t1].error = "You are not a member of this conversation"
        /\ task[t2].pc = "sm_done"
        /\ task[t2].file
        /\ Cardinality(NewRows) = 1

\* the turns whose user message, whose reply, is stored in conversation c
UserWrites(c) ==
    {t \in Tasks : UserSaved(task[t])
                     /\ RowOf(task[t].userMessageResult.data.id).conversation_id = c}

ReplyWrites(c) ==
    {t \in Tasks : ReplySaved(task[t])
                     /\ RowOf(task[t].aiMessage.data.id).conversation_id = c}

\* C35: under every interleaving of concurrent turns and for every
\* conversation, the replies written by processMessage are no more than the
\* user messages it wrote, and the reply of a turn is written after the user
\* message of that turn, in the same conversation
C35_RepliesFollowUserMessages ==
    /\ \A c \in DOMAIN conversations :
          /\ Cardinality(ReplyWrites(c)) <= Cardinality(UserWrites(c))
          /\ Cardinality({row \in NewRows : row.conversation_id = c /\ row.sender_id = AI_AGENT_USER_ID})
                <= Cardinality({row \in NewRows : row.conversation_id = c /\ row.sender_id # AI_AGENT_USER_ID})
          /\ ReplyWrites(c) \subseteq UserWrites(c)
    /\ \A t \in Tasks :
          ReplySaved(task[t])
              => /\ UserSaved(task[t])
                 /\ PositionOf(task[t].userMessageResult.data.id)
                       < PositionOf(task[t].aiMessage.data.id)

\* both turns stored their reply in the DM of user 2 with the agent, and the
\* second user message was written before the first reply
C35_Witness ==
    /\ \A t \in Tasks : task[t].pc = "pm_done"
    /\ Cardinality(ReplyWrites(1)) = 2
    /\ \E t \in Tasks, u \in Tasks :
          /\ t # u
          /\ PositionOf(task[u].userMessageResult.data.id) < PositionOf(task[t].aiMessage.data.id)
          /\ PositionOf(task[t].userMessageResult.data.id) < PositionOf(task[u].userMessageResult.data.id)
====
